---- MODULE Spec2Model ----
(***************************************************************************)
(* Host-side Wishbone transport over the Opal Kelly block pipes            *)
(* (host/ok_wishbone.py, class Wishbone): command framing, batching under  *)
(* MAX_FIFO_SIZE, the flush round trip and the response demultiplexer.     *)
(*                                                                         *)
(* Buffers are sequences of 32-bit words (everything the code packs and    *)
(* unpacks is made of '<I' words); byte lengths are 4 * Len.  TLC's        *)
(* integers stop at 2^31 - 1, so a 32-bit word is the pair <<hi, lo>> of   *)
(* its 16-bit halves, and a buffer is a sequence of runs: the run          *)
(* [base, n, inc] stands for the n words base, base + inc, base + 2 inc,   *)
(* ... (mod 2^32), so that a burst of a thousand words is one element.     *)
(***************************************************************************)
EXTENDS Integers, Sequences, FiniteSets, TLC

\* seq .. reqs describe the Wishbone instance the caller is calling; other
\* holds the same fields of a second instance of the process, set aside.
VARIABLES seq, cmd_queue, cmd_buffer, cmd_queue_output_size, reqs, trace, ret, other,
          wbi2c, xem_pipe, bulk_txns, bus, sfp, out

vars == <<seq, cmd_queue, cmd_buffer, cmd_queue_output_size, reqs, trace, ret, other,
          wbi2c, xem_pipe, bulk_txns, bus, sfp, out>>

\* the variables of the Wishbone transport of ok_wishbone.py
transport == <<seq, cmd_queue, cmd_buffer, cmd_queue_output_size, reqs, trace, ret, other>>

\* the variables of the I2C core driver, its bridge and the mock bus
legacy == <<wbi2c, xem_pipe, bulk_txns, bus, sfp, out>>

----------------------------------------------------------------------------
(* Program constants *)

\* seq: int = 0, the class attribute; `self.seq += 1` reads it through the
\* instance until the instance has its own, and assigns the instance's own
Wishbone_seq == 0

MAX_FIFO_SIZE == (2 * 1024 - 300) * 4

MAX_BURST_SIZE == 8191

DEFAULT_MASK == <<57005, 48879>>    \* 0xdeadbeef

Half == 2^16

(* Bounds of the model *)

MaxSeq == 3                     \* commands encoded in one run

MaxWrap == 258                  \* commands encoded in a long run of deferred reads

LateFrom == 254                 \* commands of a long run before the other deferred calls

\* The calls the caller makes: one argument tuple per shape of call.
ReadCalls == {[addr |-> 4096, in_transaction |-> 0]}

ModifyCalls == {[addr |-> 8196, data |-> <<0, 1>>, mask |-> <<0, 255>>, in_transaction |-> 1]}

BurstReadCalls ==
    {[addr |-> 4096, size |-> 0, addr_incr |-> 1, in_transaction |-> 0],
     [addr |-> 8196, size |-> 1, addr_incr |-> 4, in_transaction |-> 1],
     [addr |-> 4096, size |-> 5, addr_incr |-> 4, in_transaction |-> 0],
     [addr |-> 8196, size |-> 1744, addr_incr |-> 1, in_transaction |-> 0]}

\* a burst whose frame fills the FIFO on its own
IsBig(c) == 4 * c.size > MAX_FIFO_SIZE \div 2

BurstWriteCalls ==
    {[addr |-> 4096, size |-> 0, base |-> <<51966, 47806>>, addr_incr |-> 1, in_transaction |-> 0],
     [addr |-> 8196, size |-> 1, base |-> <<51966, 47806>>, addr_incr |-> 4, in_transaction |-> 1],
     [addr |-> 4096, size |-> 2, base |-> <<51966, 47806>>, addr_incr |-> 4, in_transaction |-> 0],
     [addr |-> 8196, size |-> 1744, base |-> <<65535, 65000>>, addr_incr |-> 1, in_transaction |-> 0]}

\* _encode called on its own, over the whole range of its header fields
EncodeCalls ==
    [cmd : 0..3, size : {1, 2, 5, 8191}, block_position : 0..1, addr_incr : {0, 255},
     addr : {4096}, mask : {DEFAULT_MASK}, base : {<<51966, 47806>>}]

----------------------------------------------------------------------------
(* Helpers: Python arithmetic on words and bytes *)

Min2(a, b) == IF a <= b THEN a ELSE b

RECURSIVE BitOr(_, _)
BitOr(a, b) ==
    IF a = 0 THEN b
    ELSE IF b = 0 THEN a
    ELSE (IF a % 2 = 1 \/ b % 2 = 1 THEN 1 ELSE 0) + 2 * BitOr(a \div 2, b \div 2)

\* a Python int below 2^32 as a word
W(n) == <<n \div Half, n % Half>>

\* x << n as a word, for a field x of at most 13 bits
Shl(x, n) == IF n >= 16 THEN <<x * 2^(n - 16), 0>> ELSE W(x * 2^n)

\* a | b on words
Or(a, b) == <<BitOr(a[1], b[1]), BitOr(a[2], b[2])>>

\* what struct.pack accepts for format 'I'
IsU32(w) == w[1] >= 0 /\ w[1] < Half /\ w[2] >= 0 /\ w[2] < Half

NoWord == <<-1, -1>>

BitAnd255(x) == x % 256

\* w + k (mod 2^32) on words
AddW(w, k) == LET v == w[2] + k IN <<(w[1] + (v \div Half)) % Half, v % Half>>

\* the buffer holding the n words base, base + inc, ...
Runs(base, n, inc) ==
    IF n <= 0 THEN <<>>
    ELSE <<[base |-> base, n |-> n, inc |-> IF n = 1 THEN 0 ELSE inc]>>

\* the buffer holding the words of the sequence ws
Words(ws) == [i \in 1..Len(ws) |-> [base |-> ws[i], n |-> 1, inc |-> 0]]

\* len(buf) in words, summed by halves to keep the recursion shallow
RECURSIVE WordLen(_)
WordLen(buf) ==
    IF Len(buf) = 0 THEN 0
    ELSE IF Len(buf) = 1 THEN buf[1].n
    ELSE WordLen(SubSeq(buf, 1, Len(buf) \div 2))
         + WordLen(SubSeq(buf, Len(buf) \div 2 + 1, Len(buf)))

ByteLen(buf) == 4 * WordLen(buf)

\* buf[:k] and buf[k:], k in words
RECURSIVE Take(_, _)
Take(buf, k) ==
    IF k <= 0 \/ buf = <<>> THEN <<>>
    ELSE IF Head(buf).n <= k THEN <<Head(buf)>> \o Take(Tail(buf), k - Head(buf).n)
    ELSE Runs(Head(buf).base, k, Head(buf).inc)

RECURSIVE Drop(_, _)
Drop(buf, k) ==
    IF k <= 0 \/ buf = <<>> THEN buf
    ELSE IF Head(buf).n <= k THEN Drop(Tail(buf), k - Head(buf).n)
    ELSE Runs(AddW(Head(buf).base, k * Head(buf).inc), Head(buf).n - k, Head(buf).inc)
         \o Tail(buf)

\* buf[lo:hi], offsets in words
Slice(buf, lo, hi) == Take(Drop(buf, lo), hi - lo)

\* buf[i - 1]: the i-th word
At(buf, i) == Head(Drop(buf, i - 1)).base

\* the words of a buffer, one by one
RECURSIVE Expand(_)
Expand(buf) ==
    IF buf = <<>> THEN <<>>
    ELSE [i \in 1..Head(buf).n |-> AddW(Head(buf).base, (i - 1) * Head(buf).inc)]
         \o Expand(Tail(buf))

Repeat(w, n) == Runs(w, n, 0)

\* TotalWords with the sign of the remainder lost: (size + 3) + (size + 3) % 4
TotalWords_unnegated(size) == (size + 3) + ((size + 3) % 4)

\* (size + 3) + -(size + 3) % 4
TotalWords(size) == (size + 3) + ((-(size + 3)) % 4)

NoExc == [kind |-> "none", id |-> -1, addr |-> NoWord]

IsExc(e) == e.kind # "none"

\* Python values handed back to the caller: None, an int, a list, a tuple, or
\* the fetch closure of request `id`.
NoneVal == [type |-> "None", v |-> <<>>, id |-> -1]

IntVal(d) == [type |-> "int", v |-> Runs(d, 1, 0), id |-> -1]

ListVal(ws) == [type |-> "list", v |-> ws, id |-> -1]

TupleVal(ws) == [type |-> "tuple", v |-> ws, id |-> -1]

FetchVal(id) == [type |-> "fetch", v |-> <<>>, id |-> id]

----------------------------------------------------------------------------
(* The state of one Wishbone instance as a record, so that the methods     *)
(* compose as the code composes them.  exc is the exception in flight,     *)
(* value the value being returned.                                         *)

\* The closures still reachable when a call starts: those of the queued
\* requests and those whose accessor the caller holds.
Live == {id \in DOMAIN reqs :
            reqs[id].accessor \/ \E i \in 1..Len(cmd_queue) : cmd_queue[i].h.id = id}

St == [seq |-> seq, cmd_queue |-> cmd_queue, cmd_buffer |-> cmd_buffer,
       cmd_queue_output_size |-> cmd_queue_output_size,
       reqs |-> [id \in Live |-> reqs[id]],
       trace |-> <<>>, exc |-> NoExc, value |-> NoneVal, rid |-> -1]

\* encode_header with self.seq in place of self.seq & 0xff
encode_header_unmasked_seq(s, cmd, size, block_position, addr_incr) ==
    Or(Or(Or(Or(Shl(cmd, 0), Shl(size, 2)),
             Shl(s.seq, 15)),
          Shl(block_position, 23)),
       Shl(addr_incr, 24))

\* encode_header reading self.seq after `self.seq += 1`
encode_header_after_increment(s, cmd, size, block_position, addr_incr) ==
    Or(Or(Or(Or(Shl(cmd, 0), Shl(size, 2)),
             Shl(BitAnd255(s.seq + 1), 15)),
          Shl(block_position, 23)),
       Shl(addr_incr, 24))

\* Wishbone._encode: the asserts, the header, seq += 1, the frame.
\* data is the payload as a buffer (a scalar d is the one-word buffer).
encode_header(s, cmd, size, block_position, addr_incr) ==
    Or(Or(Or(Or(Shl(cmd, 0), Shl(size, 2)),
             Shl(BitAnd255(s.seq), 15)),
          Shl(block_position, 23)),
       Shl(addr_incr, 24))

\* encode_frame padding a multi-word write with zeros instead of the mask
encode_frame_zero_footer(header, cmd, size, addr, mask, data) ==
    LET total_words == TotalWords(size)
        footer_dummy_size == total_words - size - 3
        head == Words(<<header, W(addr), mask>>)
    IN  IF cmd = 0 \/ size = 1
        THEN head \o Runs(At(data, 1), 1, 0)
        ELSE head \o Slice(data, 0, size)
                  \o (IF cmd = 1 /\ size > 1 THEN Repeat(W(0), footer_dummy_size) ELSE <<>>)

encode_frame(header, cmd, size, addr, mask, data) ==
    LET total_words == TotalWords(size)
        footer_dummy_size == total_words - size - 3
        head == Words(<<header, W(addr), mask>>)
    IN  IF cmd = 0 \/ size = 1
        THEN head \o Runs(At(data, 1), 1, 0)
        ELSE head \o Slice(data, 0, size)
                  \o (IF cmd = 1 /\ size > 1 THEN Repeat(mask, footer_dummy_size) ELSE <<>>)

\* encode_asserts without `assert 0 <= size < 8192`
encode_asserts_no_size_check(cmd, size, block_position, addr_incr) ==
    /\ 0 <= cmd /\ cmd < 4
    /\ 0 <= block_position /\ block_position < 2
    /\ 0 <= addr_incr /\ addr_incr < 256

encode_asserts(cmd, size, block_position, addr_incr) ==
    /\ 0 <= cmd /\ cmd < 4
    /\ 0 <= size /\ size < 8192
    /\ 0 <= block_position /\ block_position < 2
    /\ 0 <= addr_incr /\ addr_incr < 256

\* the number of items format_string makes struct.pack expect
pack_count(cmd, size) == IF cmd = 0 \/ size = 1 THEN 4 ELSE TotalWords(size)

\* _encode with `self.seq += 1` ahead of the asserts
encode_increment_before_asserts(s, cmd, size, block_position, addr_incr, addr, mask, data) ==
    LET s1 == [s EXCEPT !.seq = s.seq + 1]
    IN  IF ~encode_asserts(cmd, size, block_position, addr_incr)
        THEN [s |-> [s1 EXCEPT !.exc = [kind |-> "AssertionError:encode", id |-> -1, addr |-> NoWord]],
              header |-> NoWord, cmd |-> <<>>]
        ELSE LET header == encode_header(s, cmd, size, block_position, addr_incr)
                 frame == encode_frame(header, cmd, size, addr, mask, data)
             IN  IF \/ \E i \in 1..Len(frame) : ~IsU32(frame[i].base)
                    \/ WordLen(frame) # pack_count(cmd, size)
                 THEN [s |-> [s1 EXCEPT !.exc = [kind |-> "struct.error", id |-> -1, addr |-> NoWord]],
                       header |-> header, cmd |-> <<>>]
                 ELSE [s |-> s1, header |-> header, cmd |-> frame]

_encode(s, cmd, size, block_position, addr_incr, addr, mask, data) ==
    IF ~encode_asserts(cmd, size, block_position, addr_incr)
    THEN [s |-> [s EXCEPT !.exc = [kind |-> "AssertionError:encode", id |-> -1, addr |-> NoWord]],
          header |-> NoWord, cmd |-> <<>>]
    ELSE LET header == encode_header(s, cmd, size, block_position, addr_incr)
             frame == encode_frame(header, cmd, size, addr, mask, data)
             s1 == [s EXCEPT !.seq = s.seq + 1]
         IN  IF \/ \E i \in 1..Len(frame) : ~IsU32(frame[i].base)
                \/ WordLen(frame) # pack_count(cmd, size)
             THEN [s |-> [s1 EXCEPT !.exc = [kind |-> "struct.error", id |-> -1, addr |-> NoWord]],
                   header |-> header, cmd |-> <<>>]
             ELSE [s |-> s1, header |-> header, cmd |-> frame]

----------------------------------------------------------------------------
(* The per-request closures.  Each public operation creates one: its       *)
(* captured arguments, the nonlocal `data` cell its handler assigns, and   *)
(* what the model remembers about it (the encoded command, whether queue() *)
(* appended it, how often its handler ran, and, where the caller's        *)
(* accessors are followed, whether its accessor has returned a value).     *)

NewReq(op, addr, size, addr_incr, future, cmd, read_size) ==
    [op |-> op, addr |-> addr, size |-> size, addr_incr |-> addr_incr,
     future |-> future, cmd |-> cmd, cmd_len |-> ByteLen(cmd), read_size |-> read_size,
     queued |-> FALSE, accessor |-> FALSE, data_set |-> FALSE, data |-> <<>>,
     ncalls |-> 0, resolved |-> FALSE]

Handler(op, header, addr, size, addr_incr, id) ==
    [op |-> op, header |-> header, addr |-> addr, size |-> size,
     addr_incr |-> addr_incr, id |-> id]

HandlerResult(data_set, data, exc) == [data_set |-> data_set, data |-> data, exc |-> exc]

\* handle_asserts without `assert header == header2`
handle_asserts_no_header_check(id, header, header2, expected_addr, addr2, time_out) ==
    IF W(expected_addr) # addr2 THEN [kind |-> "AssertionError:addr", id |-> id, addr |-> NoWord]
    ELSE IF time_out # W(0) THEN [kind |-> "AssertionError:timeout", id |-> id, addr |-> addr2]
    ELSE NoExc

\* handle_asserts without `assert time_out == 0`
handle_asserts_no_timeout_check(id, header, header2, expected_addr, addr2, time_out) ==
    IF header # header2 THEN [kind |-> "AssertionError:header", id |-> id, addr |-> NoWord]
    ELSE IF W(expected_addr) # addr2 THEN [kind |-> "AssertionError:addr", id |-> id, addr |-> NoWord]
    ELSE NoExc

\* handle_asserts without `assert addr == addr2`
handle_asserts_no_addr_check(id, header, header2, expected_addr, addr2, time_out) ==
    IF header # header2 THEN [kind |-> "AssertionError:header", id |-> id, addr |-> NoWord]
    ELSE IF time_out # W(0) THEN [kind |-> "AssertionError:timeout", id |-> id, addr |-> addr2]
    ELSE NoExc

\* The three asserts every handler makes, in the order the code makes them.
\* expected_addr is a Python int, the echoed fields are words.
handle_asserts(id, header, header2, expected_addr, addr2, time_out) ==
    IF header # header2 THEN [kind |-> "AssertionError:header", id |-> id, addr |-> NoWord]
    ELSE IF time_out # W(0) THEN [kind |-> "AssertionError:timeout", id |-> id, addr |-> addr2]
    ELSE IF W(expected_addr) # addr2 THEN [kind |-> "AssertionError:addr", id |-> id, addr |-> NoWord]
    ELSE NoExc

StructError(id) == [kind |-> "struct.error", id |-> id, addr |-> NoWord]

\* read.handle and modify.handle: struct.unpack('<IIII', res) assigns the
\* nonlocal data cell, then the asserts run.
read_handle(h, res) ==
    IF WordLen(res) # 4 THEN HandlerResult(FALSE, <<>>, StructError(h.id))
    ELSE HandlerResult(TRUE, Runs(At(res, 2), 1, 0),
                       handle_asserts(h.id, h.header, At(res, 1), h.addr, At(res, 3), At(res, 4)))

modify_handle(h, res) ==
    IF WordLen(res) # 4 THEN HandlerResult(FALSE, <<>>, StructError(h.id))
    ELSE HandlerResult(TRUE, Runs(At(res, 2), 1, 0),
                       handle_asserts(h.id, h.header, At(res, 1), h.addr, At(res, 3), At(res, 4)))

\* write.handle: the payload word is discarded.
write_handle(h, res) ==
    IF WordLen(res) # 4 THEN HandlerResult(FALSE, <<>>, StructError(h.id))
    ELSE HandlerResult(FALSE, <<>>,
                       handle_asserts(h.id, h.header, At(res, 1), h.addr, At(res, 3), At(res, 4)))

\* burst_read.handle with addr2 = res[size + 1], time_out = res[size + 2]
burst_read_handle_counted_from_front(h, res) ==
    LET words == TotalWords(h.size)
    IN  IF WordLen(res) # words THEN HandlerResult(FALSE, <<>>, StructError(h.id))
        ELSE HandlerResult(TRUE, Slice(res, 1, h.size + 1),
                           handle_asserts(h.id, h.header, At(res, 1),
                                          h.addr + (h.size - 1) * h.addr_incr,
                                          At(res, h.size + 2), At(res, h.size + 3)))

\* burst_read.handle with data = res[0:size]
burst_read_handle_off_by_one(h, res) ==
    LET words == TotalWords(h.size)
    IN  IF WordLen(res) # words THEN HandlerResult(FALSE, <<>>, StructError(h.id))
        ELSE HandlerResult(TRUE, Slice(res, 0, h.size),
                           handle_asserts(h.id, h.header, At(res, 1),
                                          h.addr + (h.size - 1) * h.addr_incr,
                                          At(res, words - 1), At(res, words)))

\* burst_read.handle: header2 = res[0], data = res[1:size+1], addr2 = res[-2],
\* time_out = res[-1].
burst_read_handle(h, res) ==
    LET words == TotalWords(h.size)
    IN  IF WordLen(res) # words THEN HandlerResult(FALSE, <<>>, StructError(h.id))
        ELSE HandlerResult(TRUE, Slice(res, 1, h.size + 1),
                           handle_asserts(h.id, h.header, At(res, 1),
                                          h.addr + (h.size - 1) * h.addr_incr,
                                          At(res, words - 1), At(res, words)))

burst_write_handle(h, res) ==
    IF WordLen(res) # 4 THEN HandlerResult(FALSE, <<>>, StructError(h.id))
    ELSE HandlerResult(FALSE, <<>>,
                       handle_asserts(h.id, h.header, At(res, 1),
                                      h.addr + (h.size - 1) * h.addr_incr,
                                      At(res, 3), At(res, 4)))

call_handler(h, res) ==
    CASE h.op = "read" -> read_handle(h, res)
      [] h.op = "modify" -> modify_handle(h, res)
      [] h.op = "write" -> write_handle(h, res)
      [] h.op = "burst_read" -> burst_read_handle(h, res)
      [] h.op = "burst_write" -> burst_write_handle(h, res)

----------------------------------------------------------------------------
(* The bridge behind the block pipes.  One answer per flush: whether the   *)
(* pipe calls themselves raise, and which response frames (by position in  *)
(* the batch) come back faulty, with which fault.                          *)

NoEnv == [xem |-> "ok", bad |-> {}, kind |-> "timeout"]

\* What a specification lets the surroundings do: X.raise, the block pipe
\* calls may raise; X.faults, response frames may come back faulty; X.big,
\* the caller issues bursts that fill the FIFO; X.deferred_modify, the caller
\* asks modify for an accessor.
World(raise, faults, big, deferred_modify) ==
    [raise |-> raise, faults |-> faults, big |-> big, deferred_modify |-> deferred_modify]

\* No fault; one faulty frame, of any kind; or any two or more frames timed out.
Envs(n, X) ==
    {NoEnv}
    \cup (IF X.faults
          THEN {[xem |-> "ok", bad |-> {k}, kind |-> f] : k \in 1..n, f \in {"timeout", "header", "addr"}}
               \cup {[xem |-> "ok", bad |-> B, kind |-> "timeout"] :
                        B \in {C \in SUBSET (1..n) : Cardinality(C) >= 2}}
          ELSE {})
    \cup (IF X.raise
          THEN {[xem |-> x, bad |-> {}, kind |-> "timeout"] : x \in {"write_raises", "read_raises"}}
          ELSE {})

\* The payload word j the bridge supplies to the k-th request of a batch.
PayloadWord(k, j) == W(4096 * k + j)

DeviceFrame(h, read_size, k, env) ==
    LET n == read_size \div 4
        count == IF h.op = "burst_read" THEN h.size ELSE 1
        faulty == k \in env.bad
        echo == W(h.addr + (h.size - 1) * h.addr_incr)
        header2 == IF faulty /\ env.kind = "header"
                   THEN <<h.header[1], (h.header[2] + 4) % Half>> ELSE h.header
        addr2 == IF faulty /\ env.kind = "addr" THEN <<echo[1], (echo[2] + 4) % Half>> ELSE echo
        time_out == IF faulty /\ env.kind = "timeout" THEN W(1) ELSE W(0)
    IN  Words(<<header2>>) \o Runs(PayloadWord(k, 1), count, 1)
        \o Runs(DEFAULT_MASK, n - count - 3, 0) \o Words(<<addr2, time_out>>)

RECURSIVE DeviceResponse(_, _, _)
DeviceResponse(queue, k, env) ==
    IF k > Len(queue) THEN <<>>
    ELSE DeviceFrame(queue[k].h, queue[k].read_size, k, env) \o DeviceResponse(queue, k + 1, env)

----------------------------------------------------------------------------
(* flush_queue and queue *)

\* What the last public call did, in order: block pipe calls (with the bytes
\* written or the length asked for) and handler calls (with the slice the
\* handler was called on, its bounds and whether the handler raised).
Event(ev, id, lo, hi, buf, raised) ==
    [ev |-> ev, id |-> id, lo |-> lo, hi |-> hi, buf |-> buf, raised |-> raised]

\* res_sum[lo:hi], offsets in bytes
PySlice(res_sum, lo, hi) == Slice(res_sum, lo \div 4, hi \div 4)

\* handler_step with `res_offset += read_size` left out
handler_step_no_advance(queue, res_sum, i, acc) ==
    LET read_size == queue[i].read_size
        h == queue[i].h
        lo == acc.res_offset
        hi == acc.res_offset + read_size
        r == call_handler(h, PySlice(res_sum, lo, hi))
    IN  [reqs |-> [acc.reqs EXCEPT ![h.id] =
                      [@ EXCEPT !.ncalls = @ + 1,
                                !.data_set = @ \/ r.data_set,
                                !.data = IF r.data_set THEN r.data ELSE @]],
         trace |-> Append(acc.trace, Event("handle", h.id, lo, hi, PySlice(res_sum, lo, hi), IsExc(r.exc))),
         res_offset |-> lo,
         first_exception |->
            IF IsExc(r.exc) /\ ~IsExc(acc.first_exception)
            THEN r.exc ELSE acc.first_exception]

\* handler_step in a loop that gives up at the first exception
handler_step_stop_after_error(queue, res_sum, i, acc) ==
    LET read_size == queue[i].read_size
        h == queue[i].h
        lo == acc.res_offset
        hi == acc.res_offset + read_size
        r == call_handler(h, PySlice(res_sum, lo, hi))
    IN  IF IsExc(acc.first_exception) THEN [acc EXCEPT !.res_offset = hi]
        ELSE [reqs |-> [acc.reqs EXCEPT ![h.id] =
                          [@ EXCEPT !.ncalls = @ + 1,
                                    !.data_set = @ \/ r.data_set,
                                    !.data = IF r.data_set THEN r.data ELSE @]],
              trace |-> Append(acc.trace, Event("handle", h.id, lo, hi, PySlice(res_sum, lo, hi), IsExc(r.exc))),
              res_offset |-> hi,
              first_exception |-> r.exc]

\* handler_step keeping the last exception instead of the first
handler_step_last_exception(queue, res_sum, i, acc) ==
    LET read_size == queue[i].read_size
        h == queue[i].h
        lo == acc.res_offset
        hi == acc.res_offset + read_size
        r == call_handler(h, PySlice(res_sum, lo, hi))
    IN  [reqs |-> [acc.reqs EXCEPT ![h.id] =
                      [@ EXCEPT !.ncalls = @ + 1,
                                !.data_set = @ \/ r.data_set,
                                !.data = IF r.data_set THEN r.data ELSE @]],
         trace |-> Append(acc.trace, Event("handle", h.id, lo, hi, PySlice(res_sum, lo, hi), IsExc(r.exc))),
         res_offset |-> hi,
         first_exception |-> IF IsExc(r.exc) THEN r.exc ELSE acc.first_exception]

\* One turn of `for read_size, h in self.cmd_queue`: try h(res_sum[res_offset:
\* res_offset + read_size]), except: keep the first exception; res_offset += read_size
handler_step(queue, res_sum, i, acc) ==
    LET read_size == queue[i].read_size
        h == queue[i].h
        lo == acc.res_offset
        hi == acc.res_offset + read_size
        r == call_handler(h, PySlice(res_sum, lo, hi))
    IN  [reqs |-> [acc.reqs EXCEPT ![h.id] =
                      [@ EXCEPT !.ncalls = @ + 1,
                                !.data_set = @ \/ r.data_set,
                                !.data = IF r.data_set THEN r.data ELSE @]],
         trace |-> Append(acc.trace, Event("handle", h.id, lo, hi, PySlice(res_sum, lo, hi), IsExc(r.exc))),
         res_offset |-> hi,
         first_exception |->
            IF IsExc(r.exc) /\ ~IsExc(acc.first_exception)
            THEN r.exc ELSE acc.first_exception]

RECURSIVE handlers_loop(_, _, _, _)
handlers_loop(queue, res_sum, i, acc) ==
    IF i > Len(queue) THEN acc
    ELSE handlers_loop(queue, res_sum, i + 1, handler_step(queue, res_sum, i, acc))

\* self.xem.WriteToBlockPipeIn(.., self.cmd_buffer), then
\* res_sum = bytearray(self.cmd_queue_output_size); self.xem.ReadFromBlockPipeOut(.., res_sum)
pipe_write(s, raised) == Event("write", -1, 0, ByteLen(s.cmd_buffer), s.cmd_buffer, raised)

\* pipe_read asking for the whole FIFO instead of the expected response
pipe_read_whole_fifo(s, raised) == Event("read", -1, 0, MAX_FIFO_SIZE, <<>>, raised)

pipe_read(s, raised) == Event("read", -1, 0, s.cmd_queue_output_size, <<>>, raised)

\* flush_finish raising before the queue state is cleared
flush_finish_raise_before_clear(s, done) ==
    IF IsExc(done.first_exception)
    THEN [s EXCEPT !.reqs = done.reqs, !.trace = done.trace, !.exc = done.first_exception]
    ELSE [s EXCEPT !.reqs = done.reqs,
                   !.trace = done.trace,
                   !.cmd_buffer = <<>>,
                   !.cmd_queue = <<>>,
                   !.cmd_queue_output_size = 0,
                   !.exc = done.first_exception]

\* self.cmd_buffer.clear(); self.cmd_queue = []; self.cmd_queue_output_size = 0;
\* if first_exception: raise first_exception
flush_finish(s, done) ==
    [s EXCEPT !.reqs = done.reqs,
              !.trace = done.trace,
              !.cmd_buffer = <<>>,
              !.cmd_queue = <<>>,
              !.cmd_queue_output_size = 0,
              !.exc = done.first_exception]

\* assert min(len(self.cmd_buffer), self.cmd_queue_output_size) <= self.MAX_FIFO_SIZE
flush_assert(s) == Min2(ByteLen(s.cmd_buffer), s.cmd_queue_output_size) <= MAX_FIFO_SIZE

\* flush_queue without `if len(self.cmd_queue) == 0: return`
flush_queue_no_early_return(s, env) ==
    IF ~flush_assert(s)
    THEN [s EXCEPT !.exc = [kind |-> "AssertionError:capacity", id |-> -1, addr |-> NoWord]]
    ELSE IF env.xem = "write_raises"
    THEN [s EXCEPT !.exc = [kind |-> "xem:WriteToBlockPipeIn", id |-> -1, addr |-> NoWord],
                   !.trace = Append(@, pipe_write(s, TRUE))]
    ELSE IF env.xem = "read_raises"
    THEN [s EXCEPT !.exc = [kind |-> "xem:ReadFromBlockPipeOut", id |-> -1, addr |-> NoWord],
                   !.trace = @ \o <<pipe_write(s, FALSE), pipe_read(s, TRUE)>>]
    ELSE flush_finish(s, handlers_loop(s.cmd_queue, DeviceResponse(s.cmd_queue, 1, env), 1,
                                       [reqs |-> s.reqs,
                                        trace |-> s.trace \o <<pipe_write(s, FALSE), pipe_read(s, FALSE)>>,
                                        res_offset |-> 0,
                                        first_exception |-> NoExc]))

flush_queue(s, env) ==
    IF Len(s.cmd_queue) = 0 THEN s
    ELSE IF ~flush_assert(s)
    THEN [s EXCEPT !.exc = [kind |-> "AssertionError:capacity", id |-> -1, addr |-> NoWord]]
    ELSE IF env.xem = "write_raises"
    THEN [s EXCEPT !.exc = [kind |-> "xem:WriteToBlockPipeIn", id |-> -1, addr |-> NoWord],
                   !.trace = Append(@, pipe_write(s, TRUE))]
    ELSE IF env.xem = "read_raises"
    THEN [s EXCEPT !.exc = [kind |-> "xem:ReadFromBlockPipeOut", id |-> -1, addr |-> NoWord],
                   !.trace = @ \o <<pipe_write(s, FALSE), pipe_read(s, TRUE)>>]
    ELSE flush_finish(s, handlers_loop(s.cmd_queue, DeviceResponse(s.cmd_queue, 1, env), 1,
                                       [reqs |-> s.reqs,
                                        trace |-> s.trace \o <<pipe_write(s, FALSE), pipe_read(s, FALSE)>>,
                                        res_offset |-> 0,
                                        first_exception |-> NoExc]))

queue_trigger(s, cmd, read_size) ==
    Min2(ByteLen(s.cmd_buffer) + ByteLen(cmd), s.cmd_queue_output_size + read_size) > MAX_FIFO_SIZE

\* queue without `self.cmd_queue_output_size += read_size`
queue_without_size_update(s, cmd, read_size, h, env) ==
    LET s1 == IF queue_trigger(s, cmd, read_size) THEN flush_queue(s, env) ELSE s
    IN  IF IsExc(s1.exc) THEN s1
        ELSE [s1 EXCEPT !.cmd_buffer = @ \o cmd,
                        !.cmd_queue = Append(@, [read_size |-> read_size, h |-> h]),
                        !.reqs[h.id].queued = TRUE]

queue(s, cmd, read_size, h, env) ==
    LET s1 == IF queue_trigger(s, cmd, read_size) THEN flush_queue(s, env) ELSE s
    IN  IF IsExc(s1.exc) THEN s1
        ELSE [s1 EXCEPT !.cmd_buffer = @ \o cmd,
                        !.cmd_queue = Append(@, [read_size |-> read_size, h |-> h]),
                        !.cmd_queue_output_size = @ + read_size,
                        !.reqs[h.id].queued = TRUE]

----------------------------------------------------------------------------
(* The public operations.  e1 answers the flush queue() may trigger, e2    *)
(* the flush the operation itself performs.                                *)

DataVal(r) ==
    IF ~r.data_set THEN NoneVal
    ELSE IF r.op = "burst_read" THEN TupleVal(r.data)
    ELSE IntVal(At(r.data, 1))

\* the closure of a new request, named by the counter value its command took
WithReq(s, id, r) ==
    [s EXCEPT !.reqs = [i \in (DOMAIN s.reqs) \cup {id} |-> IF i = id THEN r ELSE s.reqs[i]],
              !.rid = id]

\* fetch returning data without flush_queue()
fetch_without_flush(s, id, e) == [s EXCEPT !.value = DataVal(s.reqs[id])]

\* def fetch(): self.flush_queue(); return data
fetch(s, id, e) ==
    LET s1 == flush_queue(s, e)
    IN  IF IsExc(s1.exc) THEN s1 ELSE [s1 EXCEPT !.value = DataVal(s1.reqs[id])]

\* return fetch if future else fetch()
fetch_or_future(s1, future, e2) ==
    IF IsExc(s1.exc) THEN s1
    ELSE IF future
    THEN [s1 EXCEPT !.value = FetchVal(s1.rid), !.reqs[s1.rid].accessor = TRUE]
    ELSE fetch(s1, s1.rid, e2)

read_queue(s, addr, in_transaction, future, e1) ==
    LET enc == _encode(s, 0, 1, in_transaction, 0, addr, DEFAULT_MASK, Runs(W(0), 1, 0))
    IN  IF IsExc(enc.s.exc) THEN enc.s
        ELSE queue(WithReq(enc.s, s.seq, NewReq("read", addr, 1, 0, future, enc.cmd, 16)),
                   enc.cmd, 16, Handler("read", enc.header, addr, 1, 0, s.seq), e1)

read(s, addr, in_transaction, future, e1, e2) ==
    fetch_or_future(read_queue(s, addr, in_transaction, future, e1), future, e2)

write_queue(s, addr, data, in_transaction, e1) ==
    LET enc == _encode(s, 1, 1, in_transaction, 0, addr, DEFAULT_MASK, Runs(data, 1, 0))
    IN  IF IsExc(enc.s.exc) THEN enc.s
        ELSE queue(WithReq(enc.s, s.seq, NewReq("write", addr, 1, 0, FALSE, enc.cmd, 16)),
                   enc.cmd, 16, Handler("write", enc.header, addr, 1, 0, s.seq), e1)

\* write without its closing self.flush_queue()
write_without_flush(s, addr, data, in_transaction, e1, e2) ==
    write_queue(s, addr, data, in_transaction, e1)

write(s, addr, data, in_transaction, e1, e2) ==
    LET s1 == write_queue(s, addr, data, in_transaction, e1)
    IN  IF IsExc(s1.exc) THEN s1 ELSE flush_queue(s1, e2)

modify_queue(s, addr, data, mask, in_transaction, future, e1) ==
    LET enc == _encode(s, 2, 1, in_transaction, 0, addr, mask, Runs(data, 1, 0))
    IN  IF IsExc(enc.s.exc) THEN enc.s
        ELSE queue(WithReq(enc.s, s.seq, NewReq("modify", addr, 1, 0, future, enc.cmd, 16)),
                   enc.cmd, 16, Handler("modify", enc.header, addr, 1, 0, s.seq), e1)

modify(s, addr, data, mask, in_transaction, future, e1, e2) ==
    fetch_or_future(modify_queue(s, addr, data, mask, in_transaction, future, e1), future, e2)

\* burst_read_queue registering the unpadded frame, (size + 3) * 4 bytes
burst_read_queue_unpadded(s, addr, size, addr_incr, in_transaction, future, e1) ==
    LET enc == _encode(s, 0, size, in_transaction, addr_incr, addr, DEFAULT_MASK, Runs(W(0), 1, 0))
        words == size + 3
    IN  IF IsExc(enc.s.exc) THEN enc.s
        ELSE queue(WithReq(enc.s, s.seq, NewReq("burst_read", addr, size, addr_incr, future, enc.cmd, words * 4)),
                   enc.cmd, words * 4,
                   Handler("burst_read", enc.header, addr, size, addr_incr, s.seq), e1)

burst_read_queue(s, addr, size, addr_incr, in_transaction, future, e1) ==
    LET enc == _encode(s, 0, size, in_transaction, addr_incr, addr, DEFAULT_MASK, Runs(W(0), 1, 0))
        words == TotalWords(size)
    IN  IF IsExc(enc.s.exc) THEN enc.s
        ELSE queue(WithReq(enc.s, s.seq, NewReq("burst_read", addr, size, addr_incr, future, enc.cmd, words * 4)),
                   enc.cmd, words * 4,
                   Handler("burst_read", enc.header, addr, size, addr_incr, s.seq), e1)

\* burst_read without the size == 1 shortcut: one word framed as a burst
burst_read_single_framed(s, addr, size, addr_incr, in_transaction, future, e1, e2) ==
    IF size = 0 THEN [s EXCEPT !.value = ListVal(<<>>)]
    ELSE fetch_or_future(burst_read_queue(s, addr, size, addr_incr, in_transaction, future, e1),
                         future, e2)

burst_read(s, addr, size, addr_incr, in_transaction, future, e1, e2) ==
    IF size = 0 THEN [s EXCEPT !.value = ListVal(<<>>)]
    ELSE IF size = 1
    THEN LET s1 == read(s, addr, in_transaction, FALSE, e1, e2)
         IN  IF IsExc(s1.exc) THEN s1 ELSE [s1 EXCEPT !.value = ListVal(s1.value.v)]
    ELSE fetch_or_future(burst_read_queue(s, addr, size, addr_incr, in_transaction, future, e1),
                         future, e2)

\* burst_write flushing the queue when data is empty
burst_write_empty_flushes(s, addr, data, addr_incr, in_transaction, e1, e2) ==
    LET size == WordLen(data)
    IN  IF size = 0 THEN flush_queue(s, e2)
        ELSE IF size = 1 THEN write(s, addr, At(data, 1), in_transaction, e1, e2)
        ELSE LET enc == _encode(s, 1, size, in_transaction, addr_incr, addr, DEFAULT_MASK, data)
             IN  IF IsExc(enc.s.exc) THEN enc.s
                 ELSE queue(WithReq(enc.s, s.seq, NewReq("burst_write", addr, size, addr_incr, FALSE, enc.cmd, 16)),
                            enc.cmd, 16,
                            Handler("burst_write", enc.header, addr, size, addr_incr, s.seq), e1)

burst_write(s, addr, data, addr_incr, in_transaction, e1, e2) ==
    LET size == WordLen(data)
    IN  IF size = 0 THEN s
        ELSE IF size = 1 THEN write(s, addr, At(data, 1), in_transaction, e1, e2)
        ELSE LET enc == _encode(s, 1, size, in_transaction, addr_incr, addr, DEFAULT_MASK, data)
             IN  IF IsExc(enc.s.exc) THEN enc.s
                 ELSE queue(WithReq(enc.s, s.seq, NewReq("burst_write", addr, size, addr_incr, FALSE, enc.cmd, 16)),
                            enc.cmd, 16,
                            Handler("burst_write", enc.header, addr, size, addr_incr, s.seq), e1)

----------------------------------------------------------------------------
(* Actions: one public call each *)

\* the answers the bridge can give to the flush queue() would trigger
QueueEnvs(s, cmd_bytes, read_size, X) ==
    IF /\ Len(s.cmd_queue) > 0
       /\ Min2(ByteLen(s.cmd_buffer) + cmd_bytes, s.cmd_queue_output_size + read_size) > MAX_FIFO_SIZE
    THEN Envs(Len(s.cmd_queue), X)
    ELSE {NoEnv}

\* the answers the bridge can give to the operation's own flush
FlushEnvs(s, flushes, X) ==
    IF flushes /\ ~IsExc(s.exc) /\ Len(s.cmd_queue) > 0
    THEN Envs(Len(s.cmd_queue), X)
    ELSE {NoEnv}

\* data[i] of a burst write
BurstData(base, size) == Runs(base, size, 1)

----------------------------------------------------------------------------
(* XEMWishbone (src/host/xem_wishbone.py): the block-throttled pipe bridge *)
(* that the I2C core driver talks through                                  *)

WishboneRW == [Read |-> 0, Write |-> 1]

\* None in an integer field
NoInt == -1

\* WishboneTransaction.__init__
WishboneTransaction(addr, read_write, write_val) ==
    [addr |-> addr, read_write |-> read_write, write_val |-> write_val,
     read_val |-> NoInt, fulfilled |-> FALSE]

\* XEMWishbone.__init__: block_cnt=4
block_cnt == 4

bulk_chunk_size == 2 * block_cnt

\* int.to_bytes(4, byteorder="little")
to_bytes(v) ==
    <<v % 256, (v \div 256) % 256, (v \div 65536) % 256, (v \div 16777216) % 256>>

\* int.from_bytes(b, byteorder="little")
RECURSIVE from_bytes(_)
from_bytes(b) ==
    IF b = <<>> THEN 0 ELSE b[1] + 256 * from_bytes(Tail(b))

\* bytearray(b"\0") * n
Zeros(n) == [k \in 1..n |-> 0]

\* buf[at:at+len(bytes)] = bytes, at counted from 0
Splice(buf, at, bytes) ==
    [k \in 1..Len(buf) |->
        IF k > at /\ k <= at + Len(bytes) THEN bytes[k - at] ELSE buf[k]]

\* chunks(lst, n): the successive n-sized slices of lst
chunks(lst, n) ==
    [k \in 1..((Len(lst) + n - 1) \div n) |->
        SubSeq(lst, (k - 1) * n + 1, Min2(k * n, Len(lst)))]

\* the first loop body of bulk_process: slot i of data_in takes transaction t
fill_slot(data_in, i, t) ==
    LET d1 == Splice(data_in, (i * 8) + 4, to_bytes(t.addr))
        d2 == Splice(d1, (i * 8) + 7, <<d1[(i * 8) + 8] % 128>>)
        d3 == Splice(d2, (i * 8) + 0, to_bytes(t.write_val))
        d4 == Splice(d3, (i * 8) + 7, <<(d3[(i * 8) + 8] % 128) + 128>>)
    IN  IF t.read_write = WishboneRW.Write THEN d4 ELSE d2

\* for i, t in enumerate(chunked_txns): the slots 0..i-1 are filled
RECURSIVE fill_chunk(_, _, _)
fill_chunk(data_in, chunked_txns, i) ==
    IF i = 0 THEN data_in
    ELSE fill_slot(fill_chunk(data_in, chunked_txns, i - 1), i - 1, chunked_txns[i])

\* the loop over the chunks: data_in lives across the chunks, every chunk is
\* one WriteToBlockPipeIn of data_in and one ReadFromBlockPipeOut, and the
\* second inner loop takes the read values from data_out
RECURSIVE bulk_loop(_, _, _, _, _)
bulk_loop(cs, k, data_in, data_out, acc) ==
    IF k > Len(cs) THEN acc
    ELSE LET filled == fill_chunk(data_in, cs[k], Len(cs[k]))
             settled ==
                 [n \in 1..Len(cs[k]) |->
                     LET t == cs[k][n]
                         i == n - 1
                     IN  IF t.read_write = WishboneRW.Read
                         THEN [t EXCEPT !.read_val =
                                            from_bytes(SubSeq(data_out, (i * 8) + 1, (i * 8) + 3)),
                                        !.fulfilled = TRUE]
                         ELSE [t EXCEPT !.fulfilled = TRUE]]
         IN  bulk_loop(cs, k + 1, filled, data_out,
                       [txns |-> acc.txns \o settled, pipe |-> Append(acc.pipe, filled)])

\* XEMWishbone.bulk_process(txns): the transactions as the call leaves them
\* and the blocks it wrote to the pipe; data_out is what the bridge answers
bulk_process(txns, data_out) ==
    bulk_loop(chunks(txns, 2 * block_cnt), 1, Zeros(16 * block_cnt), data_out,
              [txns |-> <<>>, pipe |-> <<>>])

\* the bytes ReadFromBlockPipeOut may leave in data_out
DataOuts == { [k \in 1..(16 * block_cnt) |-> (k * m) % 256] : m \in {0, 37} }

----------------------------------------------------------------------------
(* WishboneI2C (src/host/xem_i2c.py): the I2C core behind the bridge       *)

WBI2CReg == [PRER_LOW |-> 0, PRER_HIGH |-> 1, CTR |-> 2, RXR |-> 3, SR |-> 4, TXR |-> 5, CR |-> 6]

I2CRW == [WRITE |-> 0, READ |-> 1]

\* i2c_bus = WishboneI2C(wb, 0b10 << 8)
i2c_base == 512

\* the driver during a call: its two fields, the blocks the call wrote to
\* the pipe, and the outcome
LSt(q) ==
    [queue_wb_writes_enabled |-> q.queue_wb_writes_enabled,
     queued_wb_writes |-> q.queued_wb_writes,
     pipe |-> <<>>, exc |-> "none", value |-> NoInt]

\* XEMWishbone.write
XEMWishbone_write(s, addr, val) ==
    LET r == bulk_process(<<WishboneTransaction(addr, WishboneRW.Write, val)>>,
                          Zeros(16 * block_cnt))
    IN  IF r.txns[1].fulfilled
        THEN [s EXCEPT !.pipe = @ \o r.pipe]
        ELSE [s EXCEPT !.pipe = @ \o r.pipe, !.exc = "AssertionError"]

\* XEMWishbone.read
XEMWishbone_read(s, addr, data_out) ==
    LET r == bulk_process(<<WishboneTransaction(addr, WishboneRW.Read, NoInt)>>, data_out)
    IN  IF r.txns[1].fulfilled
        THEN [s EXCEPT !.pipe = @ \o r.pipe, !.value = r.txns[1].read_val]
        ELSE [s EXCEPT !.pipe = @ \o r.pipe, !.exc = "AssertionError"]

\* WishboneI2C.__write_wb
write_wb(s, addr, val) ==
    IF s.exc # "none" THEN s
    ELSE IF s.queue_wb_writes_enabled
    THEN [s EXCEPT !.queued_wb_writes = @ \o <<<<i2c_base + addr, val>>>>]
    ELSE XEMWishbone_write(s, i2c_base + addr, val)

\* the write transactions built from queued_wb_writes
QueuedTxns(s) ==
    [k \in 1..Len(s.queued_wb_writes) |->
        WishboneTransaction(s.queued_wb_writes[k][1], WishboneRW.Write,
                            s.queued_wb_writes[k][2])]

\* WishboneI2C.__read_wb
read_wb(s, addr, data_out) ==
    IF s.exc # "none" THEN s
    ELSE IF Len(s.queued_wb_writes) > 0
    THEN LET txns == QueuedTxns(s)
                     \o <<WishboneTransaction(i2c_base + addr, WishboneRW.Read, NoInt)>>
         IN  IF ~(bulk_chunk_size >= Len(txns))
             THEN [s EXCEPT !.exc = "AssertionError"]
             ELSE LET r == bulk_process(txns, data_out)
                  IN  IF ~r.txns[Len(txns)].fulfilled
                      THEN [s EXCEPT !.pipe = @ \o r.pipe, !.exc = "AssertionError"]
                      ELSE [s EXCEPT !.pipe = @ \o r.pipe, !.queued_wb_writes = <<>>,
                                     !.value = r.txns[Len(txns)].read_val]
    ELSE XEMWishbone_read(s, i2c_base + addr, data_out)

\* WishboneI2C.flush_writes
flush_writes(s) ==
    IF Len(s.queued_wb_writes) > 0
    THEN LET txns == QueuedTxns(s)
         IN  IF ~(bulk_chunk_size >= Len(txns))
             THEN [s EXCEPT !.exc = "AssertionError"]
             ELSE LET r == bulk_process(txns, Zeros(16 * block_cnt))
                  IN  IF ~r.txns[Len(txns)].fulfilled
                      THEN [s EXCEPT !.pipe = @ \o r.pipe, !.exc = "AssertionError"]
                      ELSE [s EXCEPT !.pipe = @ \o r.pipe, !.queued_wb_writes = <<>>]
    ELSE s

\* WishboneI2C.queue_wb_writes
queue_wb_writes(s, queue_writes) ==
    LET s1 == IF ~queue_writes THEN flush_writes(s) ELSE s
    IN  IF s1.exc # "none" THEN s1
        ELSE [s1 EXCEPT !.queue_wb_writes_enabled = queue_writes]

\* WishboneI2C.__init__: __write_prer(0x00CA) is the write of the low and of
\* the high byte, then CTR takes 0x80
NewWishboneI2C ==
    write_wb(write_wb(write_wb(LSt([queue_wb_writes_enabled |-> FALSE,
                                    queued_wb_writes |-> <<>>]),
                               WBI2CReg.PRER_LOW, 202 % 256),
                      WBI2CReg.PRER_HIGH, (202 \div 256) % 256),
             WBI2CReg.CTR, 128)

----------------------------------------------------------------------------
(* MockI2CBus (src/host/i2c.py) with one SFPMock (src/host/sfp.py) attached *)

\* regs[bank][reg] of the recorded dump the mock plays back
Dump(bank, reg) == ((bank \div 2) + (7 * reg)) % 256

\* SFPMock.has_addr
has_addr(addr) == (addr * 2) \in {160, 162}

\* SFPMock.start_cond
start_cond(m, addr, rw) ==
    LET m1 == [m EXCEPT !.i2c_addr = addr]
    IN  IF m1.i2c_state = "idle" /\ rw = I2CRW.WRITE
        THEN [sfp |-> [m1 EXCEPT !.i2c_state = "awaiting_reg_addr"], exc |-> "none"]
        ELSE IF m1.i2c_state = "received_reg_addr" /\ rw = I2CRW.READ
        THEN [sfp |-> [m1 EXCEPT !.i2c_state = "read_register"], exc |-> "none"]
        ELSE [sfp |-> m1, exc |-> "NotImplementedError"]

\* SFPMock.consume
consume(m, data) ==
    IF m.i2c_state = "awaiting_reg_addr"
    THEN [m EXCEPT !.reg_addr = data, !.i2c_state = "received_reg_addr"]
    ELSE m

\* SFPMock.stop_cond
stop_cond(m) ==
    IF m.i2c_state = "awaiting_stop_cond"
    THEN [sfp |-> [m EXCEPT !.i2c_state = "idle"], exc |-> "none"]
    ELSE IF m.i2c_state = "received_reg_addr"
    THEN [sfp |-> m, exc |-> "none"]
    ELSE [sfp |-> m, exc |-> "NotImplementedError"]

\* SFPMock.ack
ack(m) ==
    IF m.i2c_state = "read_register_awaiting_ack"
    THEN [m EXCEPT !.i2c_state = "awaiting_stop_cond"]
    ELSE m

\* a produce() that answers in every state
produce_in_any_state(m) ==
    [sfp |-> [m EXCEPT !.i2c_state = "read_register_awaiting_ack"], exc |-> "none",
     value |-> Dump(m.i2c_addr * 2, m.reg_addr)]

\* SFPMock.produce
produce(m) ==
    IF m.i2c_state = "read_register"
    THEN [sfp |-> [m EXCEPT !.i2c_state = "read_register_awaiting_ack"], exc |-> "none",
          value |-> Dump(m.i2c_addr * 2, m.reg_addr)]
    ELSE [sfp |-> m, exc |-> "NotImplementedError", value |-> NoInt]

\* the bus and its slave during a call; log is the i2c_state after every
\* callback of the slave, window is whether a start() has succeeded and no
\* stop() or read_ack_stop() has been called since
MSt(b, m, window) ==
    [bus |-> b, sfp |-> m, exc |-> "none", value |-> NoInt, log |-> <<>>, window |-> window]

\* MockI2CBus.start
MockI2CBus_start(s, addr, rw) ==
    IF s.exc # "none" THEN s
    ELSE IF ~(0 <= addr /\ addr <= 127) THEN [s EXCEPT !.exc = "AssertionError"]
    ELSE LET b1 == [curtxn_valid |-> TRUE, curtxn_addr |-> addr, curtxn_rw |-> rw,
                    curtxn_slaves |-> IF has_addr(addr) THEN <<"sfp">> ELSE <<>>]
         IN  IF b1.curtxn_slaves = <<>> THEN [s EXCEPT !.bus = b1, !.window = TRUE]
             ELSE LET r == start_cond(s.sfp, addr, rw)
                  IN  [s EXCEPT !.bus = b1, !.sfp = r.sfp, !.exc = r.exc,
                                !.log = Append(@, r.sfp.i2c_state),
                                !.window = @ \/ r.exc = "none"]

\* MockI2CBus.stop
MockI2CBus_stop(s) ==
    IF s.exc # "none" THEN s
    ELSE IF s.bus.curtxn_valid /\ s.bus.curtxn_slaves # <<>>
    THEN LET r == stop_cond(s.sfp)
         IN  IF r.exc # "none"
             THEN [s EXCEPT !.exc = r.exc, !.log = Append(@, r.sfp.i2c_state),
                            !.window = FALSE]
             ELSE [s EXCEPT !.sfp = r.sfp, !.bus.curtxn_valid = FALSE,
                            !.log = Append(@, r.sfp.i2c_state), !.window = FALSE]
    ELSE [s EXCEPT !.bus.curtxn_valid = FALSE, !.window = FALSE]

\* MockI2CBus.write
MockI2CBus_write(s, data) ==
    IF s.exc # "none" THEN s
    ELSE IF ~(0 <= data /\ data <= 255) THEN [s EXCEPT !.exc = "AssertionError"]
    ELSE IF ~s.bus.curtxn_valid THEN [s EXCEPT !.exc = "RuntimeError"]
    ELSE IF s.bus.curtxn_slaves = <<>> THEN s
    ELSE LET m1 == consume(s.sfp, data)
         IN  [s EXCEPT !.sfp = m1, !.log = Append(@, m1.i2c_state)]

\* MockI2CBus.read_ack_stop
MockI2CBus_read_ack_stop(s) ==
    IF s.exc # "none" THEN s
    ELSE IF ~s.bus.curtxn_valid THEN [s EXCEPT !.exc = "RuntimeError", !.window = FALSE]
    ELSE IF s.bus.curtxn_slaves = <<>>
    THEN [s EXCEPT !.bus.curtxn_valid = FALSE, !.value = 255, !.window = FALSE]
    ELSE LET p == produce(s.sfp)
             a == ack(p.sfp)
             c == stop_cond(a)
         IN  IF p.exc # "none"
             THEN [s EXCEPT !.exc = p.exc, !.log = Append(@, p.sfp.i2c_state),
                            !.window = FALSE]
             ELSE IF c.exc # "none"
             THEN [s EXCEPT !.sfp = c.sfp, !.exc = c.exc, !.window = FALSE,
                            !.log = @ \o <<p.sfp.i2c_state, a.i2c_state, c.sfp.i2c_state>>]
             ELSE [s EXCEPT !.sfp = c.sfp, !.bus.curtxn_valid = FALSE,
                            !.value = p.value % 256, !.window = FALSE,
                            !.log = @ \o <<p.sfp.i2c_state, a.i2c_state, c.sfp.i2c_state>>]

\* I2CSFP.__read_sfp_addr
read_sfp_addr(s, bank, sfp_reg_addr) ==
    MockI2CBus_read_ack_stop(
        MockI2CBus_start(
            MockI2CBus_write(
                MockI2CBus_start(s, bank \div 2, I2CRW.WRITE),
                sfp_reg_addr),
            bank \div 2, I2CRW.READ))

----------------------------------------------------------------------------
(* The calls as steps *)

Commit(op, future, s) ==
    /\ seq' = s.seq
    /\ cmd_queue' = s.cmd_queue
    /\ cmd_buffer' = s.cmd_buffer
    /\ cmd_queue_output_size' = s.cmd_queue_output_size
    /\ reqs' = s.reqs
    /\ trace' = s.trace
    /\ ret' = [op |-> op, future |-> future, id |-> s.rid, value |-> s.value, exc |-> s.exc]
    /\ UNCHANGED <<other, legacy>>

\* Commit for the burst calls, whose outcome also keeps the arguments c
CommitBurst(op, future, c, s) ==
    /\ seq' = s.seq
    /\ cmd_queue' = s.cmd_queue
    /\ cmd_buffer' = s.cmd_buffer
    /\ cmd_queue_output_size' = s.cmd_queue_output_size
    /\ reqs' = s.reqs
    /\ trace' = s.trace
    /\ ret' = [op |-> op, future |-> future, id |-> s.rid, value |-> s.value, exc |-> s.exc,
               args |-> c]
    /\ UNCHANGED <<other, legacy>>

Init ==
    /\ seq = Wishbone_seq
    /\ cmd_queue = <<>>
    /\ cmd_buffer = <<>>
    /\ cmd_queue_output_size = 0
    /\ reqs = <<>>
    /\ trace = <<>>
    /\ ret = [op |-> "init", future |-> FALSE, id |-> -1, value |-> NoneVal, exc |-> NoExc]
    /\ other = [seq |-> Wishbone_seq, cmd_queue |-> <<>>, cmd_buffer |-> <<>>,
                cmd_queue_output_size |-> 0, reqs |-> <<>>]
    /\ wbi2c = [queue_wb_writes_enabled |-> NewWishboneI2C.queue_wb_writes_enabled,
                queued_wb_writes |-> NewWishboneI2C.queued_wb_writes]
    /\ xem_pipe = NewWishboneI2C.pipe
    /\ bulk_txns = <<>>
    /\ bus = [curtxn_valid |-> FALSE, curtxn_addr |-> 0, curtxn_slaves |-> <<>>,
              curtxn_rw |-> I2CRW.WRITE]
    /\ sfp = [i2c_state |-> "idle", i2c_addr |-> 0, reg_addr |-> 0]
    /\ out = [op |-> "init", args |-> <<>>, exc |-> "none", value |-> NoInt, log |-> <<>>,
              window |-> FALSE, reads |-> 0]

Read(X) ==
    /\ seq < MaxSeq
    /\ \E c \in ReadCalls, future \in BOOLEAN :
       \E e1 \in QueueEnvs(St, 16, 16, X) :
          LET s1 == read_queue(St, c.addr, c.in_transaction, future, e1)
          IN  \E e2 \in FlushEnvs(s1, ~future, X) :
                 Commit("read", future, fetch_or_future(s1, future, e2))

Write(X) ==
    /\ seq < MaxSeq
    /\ \E c \in {[addr |-> 4096, data |-> <<51966, 47806>>, in_transaction |-> 0]} :
       \E e1 \in QueueEnvs(St, 16, 16, X) :
          LET s1 == write_queue(St, c.addr, c.data, c.in_transaction, e1)
          IN  \E e2 \in FlushEnvs(s1, TRUE, X) :
                 Commit("write", FALSE, write(St, c.addr, c.data, c.in_transaction, e1, e2))

Modify(X) ==
    /\ seq < MaxSeq
    /\ \E c \in ModifyCalls, future \in {f \in BOOLEAN : X.deferred_modify \/ ~f} :
       \E e1 \in QueueEnvs(St, 16, 16, X) :
          LET s1 == modify_queue(St, c.addr, c.data, c.mask, c.in_transaction, future, e1)
          IN  \E e2 \in FlushEnvs(s1, ~future, X) :
                 Commit("modify", future, fetch_or_future(s1, future, e2))

BurstRead(X) ==
    /\ seq < MaxSeq
    /\ \E c \in {b \in BurstReadCalls : X.big \/ ~IsBig(b)}, future \in BOOLEAN :
       \E e1 \in QueueEnvs(St, 16, IF c.size = 1 THEN 16 ELSE 4 * TotalWords(c.size), X) :
       \E e2 \in FlushEnvs(IF c.size = 0 THEN St
                           ELSE IF c.size = 1 THEN read_queue(St, c.addr, c.in_transaction, FALSE, e1)
                           ELSE burst_read_queue(St, c.addr, c.size, c.addr_incr,
                                                 c.in_transaction, future, e1),
                           c.size # 0 /\ (c.size = 1 \/ ~future), X) :
          CommitBurst("burst_read", future, c,
                      burst_read(St, c.addr, c.size, c.addr_incr, c.in_transaction, future, e1, e2))

BurstWrite(X) ==
    /\ seq < MaxSeq
    /\ \E c \in {b \in BurstWriteCalls : X.big \/ ~IsBig(b)} :
       \E e1 \in QueueEnvs(St, IF c.size = 1 THEN 16 ELSE 4 * TotalWords(c.size), 16, X) :
       \E e2 \in FlushEnvs(IF c.size = 1
                           THEN write_queue(St, c.addr, c.base, c.in_transaction, e1) ELSE St,
                           c.size = 1, X) :
          CommitBurst("burst_write", FALSE, c,
                      burst_write(St, c.addr, BurstData(c.base, c.size), c.addr_incr,
                                  c.in_transaction, e1, e2))

\* the caller invokes an accessor it was handed
Fetch(X) ==
    \E id \in DOMAIN reqs :
       /\ reqs[id].accessor
       /\ \E e \in FlushEnvs(St, TRUE, X) :
             Commit("fetch", FALSE, fetch([St EXCEPT !.rid = id], id, e))

FlushQueue(X) ==
    \E e \in FlushEnvs(St, TRUE, X) : Commit("flush_queue", FALSE, flush_queue(St, e))

\* the caller and a bridge whose frames may be faulty
Faulty == World(FALSE, TRUE, FALSE, FALSE)

Next ==
    \/ Read(Faulty)
    \/ Write(Faulty)
    \/ Modify(Faulty)
    \/ BurstRead(Faulty)
    \/ BurstWrite(Faulty)
    \/ Fetch(Faulty)
    \/ FlushQueue(Faulty)

Spec == Init /\ [][Next]_vars

\* the caller issuing FIFO-filling bursts, the bridge answering faithfully
Filling == World(FALSE, FALSE, TRUE, TRUE)

SpecCapacity ==
    /\ Init
    /\ [][ \/ Read(Filling)
           \/ Write(Filling)
           \/ Modify(Filling)
           \/ BurstRead(Filling)
           \/ BurstWrite(Filling)
           \/ Fetch(Filling)
           \/ FlushQueue(Filling) ]_vars

\* block pipe calls that may raise
Raising == World(TRUE, FALSE, FALSE, TRUE)

SpecXemFail ==
    /\ Init
    /\ [][ \/ Read(Raising)
           \/ Write(Raising)
           \/ Modify(Raising)
           \/ BurstRead(Raising)
           \/ BurstWrite(Raising)
           \/ Fetch(Raising)
           \/ FlushQueue(Raising) ]_vars

----------------------------------------------------------------------------
(* A long run: the caller queues deferred reads until the 8-bit sequence   *)
(* tag has gone round, the bridge answering faithfully; it flushes only    *)
(* among its first MaxSeq commands and makes the other deferred calls only *)
(* after its first LateFrom commands.                                      *)

Faithful == World(FALSE, FALSE, FALSE, FALSE)

\* read(addr, future=True)
ReadDeferred ==
    /\ seq < MaxWrap
    /\ \E c \in ReadCalls :
       \E e1 \in QueueEnvs(St, 16, 16, Faithful) :
          Commit("read", TRUE, read(St, c.addr, c.in_transaction, TRUE, e1, NoEnv))

\* flush_queue()
FlushEarly == seq <= MaxSeq /\ FlushQueue(Faithful)

\* modify(.., future=True), burst_read(.., future=True) and burst_write of
\* two or more words: the other calls that queue without flushing
DeferredLate ==
    /\ seq >= LateFrom
    /\ seq < MaxWrap
    /\ \/ \E c \in ModifyCalls :
             Commit("modify", TRUE,
                    modify(St, c.addr, c.data, c.mask, c.in_transaction, TRUE, NoEnv, NoEnv))
       \/ \E c \in {b \in BurstReadCalls : b.size >= 2 /\ ~IsBig(b)} :
             CommitBurst("burst_read", TRUE, c,
                         burst_read(St, c.addr, c.size, c.addr_incr, c.in_transaction, TRUE, NoEnv, NoEnv))
       \/ \E c \in {b \in BurstWriteCalls : b.size >= 2 /\ ~IsBig(b)} :
             CommitBurst("burst_write", FALSE, c,
                         burst_write(St, c.addr, BurstData(c.base, c.size), c.addr_incr,
                                     c.in_transaction, NoEnv, NoEnv))

SpecWrap ==
    /\ Init
    /\ [][ \/ ReadDeferred
           \/ DeferredLate
           \/ FlushEarly ]_vars

----------------------------------------------------------------------------
(* Two instances in one process: the caller turns from one to the other.   *)

Switch ==
    /\ other' = [seq |-> seq, cmd_queue |-> cmd_queue, cmd_buffer |-> cmd_buffer,
                 cmd_queue_output_size |-> cmd_queue_output_size,
                 reqs |-> [id \in Live |-> reqs[id]]]
    /\ seq' = other.seq
    /\ cmd_queue' = other.cmd_queue
    /\ cmd_buffer' = other.cmd_buffer
    /\ cmd_queue_output_size' = other.cmd_queue_output_size
    /\ reqs' = other.reqs
    /\ trace' = <<>>
    /\ ret' = [op |-> "switch", future |-> FALSE, id |-> -1, value |-> NoneVal, exc |-> NoExc]
    /\ UNCHANGED legacy

SpecTwo ==
    /\ Init
    /\ [][ \/ Read(Faithful)
           \/ Write(Faithful)
           \/ BurstWrite(Faithful)
           \/ Fetch(Faithful)
           \/ FlushQueue(Faithful)
           \/ Switch ]_vars

----------------------------------------------------------------------------
(* _encode on its own *)

\* the tuple (header, bytearray) _encode returns: the header, then the words
\* of the bytearray
EncodeVal(header, cmd) == [type |-> "encode", v |-> Words(<<header>>) \o cmd, id |-> -1]

\* data is one word for a read or a single operation, else a list of size words
EncodeData(c) ==
    IF c.cmd = 0 \/ c.size = 1 THEN Runs(c.base, 1, 0) ELSE BurstData(c.base, c.size)

\* Between its first MaxSeq and after its first LateFrom calls the caller
\* encodes single reads only.
Encode ==
    /\ seq < MaxWrap
    /\ \E c \in {e \in EncodeCalls :
                    \/ seq < MaxSeq
                    \/ seq >= LateFrom
                    \/ e.cmd = 0 /\ e.size = 1 /\ e.block_position = 0 /\ e.addr_incr = 0} :
          LET enc == _encode(St, c.cmd, c.size, c.block_position, c.addr_incr,
                             c.addr, c.mask, EncodeData(c))
          IN  /\ seq' = enc.s.seq
              /\ ret' = [op |-> "_encode", future |-> FALSE, id |-> seq,
                         value |-> IF IsExc(enc.s.exc) THEN NoneVal
                                   ELSE EncodeVal(enc.header, enc.cmd),
                         exc |-> enc.s.exc, args |-> c]
              /\ trace' = <<>>
              /\ reqs' = enc.s.reqs
              /\ UNCHANGED <<cmd_queue, cmd_buffer, cmd_queue_output_size, other, legacy>>

SpecEncode ==
    /\ Init
    /\ [][ \/ Encode ]_vars

----------------------------------------------------------------------------
(* Accessors invoked again and again: the closure remembers that its       *)
(* accessor has returned a value.                                          *)

\* the caller invokes an accessor it was handed
Invoke(X) ==
    \E id \in DOMAIN reqs :
       /\ reqs[id].accessor
       /\ \E e \in FlushEnvs(St, TRUE, X) :
             LET s1 == fetch([St EXCEPT !.rid = id], id, e)
             IN  Commit("fetch", FALSE, [s1 EXCEPT !.reqs[id].resolved = @ \/ ~IsExc(s1.exc)])

\* frames may be faulty and modify may be asked for an accessor
Again == World(FALSE, TRUE, FALSE, TRUE)

SpecAgain ==
    /\ Init
    /\ [][ \/ Read(Again)
           \/ Write(Again)
           \/ Modify(Again)
           \/ BurstRead(Again)
           \/ BurstWrite(Again)
           \/ Invoke(Again) ]_vars

----------------------------------------------------------------------------
(* Bursts of one word, with every address increment and atomic-group flag, *)
(* among reads and writes; frames may be faulty.                           *)

SingleCalls ==
    [addr : {4096}, size : {1}, base : {<<51966, 47806>>},
     addr_incr : {0, 4, 255}, in_transaction : 0..1]

BurstReadOne ==
    /\ seq < MaxSeq
    /\ \E c \in SingleCalls, future \in BOOLEAN :
       \E e1 \in QueueEnvs(St, 16, 16, Faulty) :
       \E e2 \in FlushEnvs(read_queue(St, c.addr, c.in_transaction, FALSE, e1), TRUE, Faulty) :
          CommitBurst("burst_read", future, c,
                      burst_read(St, c.addr, c.size, c.addr_incr, c.in_transaction, future, e1, e2))

BurstWriteOne ==
    /\ seq < MaxSeq
    /\ \E c \in SingleCalls :
       \E e1 \in QueueEnvs(St, 16, 16, Faulty) :
       \E e2 \in FlushEnvs(write_queue(St, c.addr, c.base, c.in_transaction, e1), TRUE, Faulty) :
          CommitBurst("burst_write", FALSE, c,
                      burst_write(St, c.addr, BurstData(c.base, c.size), c.addr_incr,
                                  c.in_transaction, e1, e2))

SpecSingle ==
    /\ Init
    /\ [][ \/ Read(Faulty)
           \/ Write(Faulty)
           \/ BurstReadOne
           \/ BurstWriteOne ]_vars

----------------------------------------------------------------------------
(* Bursts at and above MAX_BURST_SIZE, among reads, the bridge answering   *)
(* faithfully.                                                             *)

CeilingCalls ==
    [addr : {4096}, size : {MAX_BURST_SIZE, MAX_BURST_SIZE + 1}, base : {<<51966, 47806>>},
     addr_incr : {1}, in_transaction : {0}]

BurstReadCeiling ==
    /\ seq < MaxSeq
    /\ \E c \in CeilingCalls, future \in BOOLEAN :
          CommitBurst("burst_read", future, c,
                      burst_read(St, c.addr, c.size, c.addr_incr, c.in_transaction, future,
                                 NoEnv, NoEnv))

BurstWriteCeiling ==
    /\ seq < MaxSeq
    /\ \E c \in CeilingCalls :
          CommitBurst("burst_write", FALSE, c,
                      burst_write(St, c.addr, BurstData(c.base, c.size), c.addr_incr,
                                  c.in_transaction, NoEnv, NoEnv))

SpecCeiling ==
    /\ Init
    /\ [][ \/ Read(Faithful)
           \/ BurstReadCeiling
           \/ BurstWriteCeiling
           \/ Fetch(Faithful)
           \/ FlushQueue(Faithful) ]_vars

----------------------------------------------------------------------------
(* _encode and burst_read called with arguments in and out of range, among *)
(* deferred and eager reads; the bridge answers faithfully.                *)

EncodeContract ==
    /\ seq < MaxSeq
    /\ \E c \in [cmd : {-1, 1, 4}, size : {-1, 2, MAX_BURST_SIZE + 1},
                 block_position : {-1, 1, 2}, addr_incr : {-1, 255, 256}, addr : {4096},
                 mask : {DEFAULT_MASK}, base : {<<51966, 47806>>}] :
          LET enc == _encode(St, c.cmd, c.size, c.block_position, c.addr_incr,
                             c.addr, c.mask, EncodeData(c))
          IN  /\ seq' = enc.s.seq
              /\ ret' = [op |-> "_encode", future |-> FALSE, id |-> seq,
                         value |-> IF IsExc(enc.s.exc) THEN NoneVal
                                   ELSE EncodeVal(enc.header, enc.cmd),
                         exc |-> enc.s.exc, args |-> c]
              /\ trace' = <<>>
              /\ reqs' = enc.s.reqs
              /\ UNCHANGED <<cmd_queue, cmd_buffer, cmd_queue_output_size, other, legacy>>

BurstReadContract ==
    /\ seq < MaxSeq
    /\ \E c \in [addr : {4096}, size : {5}, addr_incr : {-1, 4, 256},
                 in_transaction : {0, 2}],
          future \in BOOLEAN :
          CommitBurst("burst_read", future, c,
                      burst_read(St, c.addr, c.size, c.addr_incr, c.in_transaction, future,
                                 NoEnv, NoEnv))

SpecContract ==
    /\ Init
    /\ [][ \/ Read(Faithful)
           \/ EncodeContract
           \/ BurstReadContract ]_vars

----------------------------------------------------------------------------
(* The handler of a burst read on its own, called on frames of the right   *)
(* length whose words after the payload are anything.                      *)

\* the handler burst_read(0x1000, size, addr_incr=4) hands to queue() on a
\* new instance
LayoutHandler(size) ==
    Handler("burst_read", encode_header(St, 0, size, 0, 4), 4096, size, 4, 0)

\* a header that is or is not the one sent, the payload, then any of the
\* expected address, 0 and 1 in every further word
LayoutFrames(size) ==
    LET h == LayoutHandler(size)
        rest == [1..(TotalWords(size) - size - 1) ->
                    {W(h.addr + (size - 1) * h.addr_incr), W(0), W(1)}]
    IN  {<<hd>> \o [i \in 1..size |-> PayloadWord(1, i)] \o r :
            hd \in {h.header, AddW(h.header, 4)}, r \in rest}

HandleBurstRead ==
    \E size \in {2, 5} :
    \E res \in LayoutFrames(size) :
       LET r == burst_read_handle(LayoutHandler(size), Words(res))
       IN  /\ ret' = [op |-> "burst_read.handle", future |-> FALSE, id |-> 0,
                      value |-> IF r.data_set THEN TupleVal(r.data) ELSE NoneVal,
                      exc |-> r.exc, args |-> [size |-> size, res |-> res]]
           /\ UNCHANGED <<seq, cmd_queue, cmd_buffer, cmd_queue_output_size, reqs, trace, other, legacy>>

SpecLayout ==
    /\ Init
    /\ [][ \/ HandleBurstRead ]_vars

----------------------------------------------------------------------------
(* FIFO-filling bursts with a bridge that may fail: queue() flushes the    *)
(* pending batch to make room, and that flush may meet faulty frames or a  *)
(* block pipe call that raises.                                            *)

Failing == World(TRUE, TRUE, TRUE, FALSE)

SpecRoom ==
    /\ Init
    /\ [][ \/ Read(Failing)
           \/ BurstRead(Failing)
           \/ BurstWrite(Failing) ]_vars

----------------------------------------------------------------------------
(* XEMWishbone.bulk_process on transaction lists of every length up to     *)
(* MaxTxns, past one chunk of 2 * block_cnt                                *)

MaxTxns == 9

\* the lists of 0..MaxTxns transactions, each at its own address, whose reads
\* and writes follow one of the eight patterns of period three; a write
\* carries its own value
TxnLists ==
    UNION { { [k \in 1..n |->
                 LET rw == (p \div (2 ^ ((k - 1) % 3))) % 2
                 IN  WishboneTransaction(256 + k, rw,
                                         IF rw = WishboneRW.Write THEN 4096 + k ELSE NoInt)] :
              p \in 0..7 } :
            n \in 0..MaxTxns }

BulkProcess ==
    \E l \in TxnLists, data_out \in DataOuts :
       LET r == bulk_process(l, data_out)
       IN  /\ bulk_txns' = r.txns
           /\ xem_pipe' = r.pipe
           /\ out' = [out EXCEPT !.op = "bulk_process", !.args = l, !.exc = "none",
                                 !.value = NoInt, !.log = <<>>]
           /\ UNCHANGED <<transport, wbi2c, bus, sfp>>

SpecBulk ==
    /\ Init
    /\ [][ \/ BulkProcess ]_vars

----------------------------------------------------------------------------
(* WishboneI2C with and without write queueing                             *)

MaxQueued == 9

LegacyCommit(op, args, s) ==
    /\ wbi2c' = [queue_wb_writes_enabled |-> s.queue_wb_writes_enabled,
                 queued_wb_writes |-> s.queued_wb_writes]
    /\ xem_pipe' = s.pipe
    /\ out' = [out EXCEPT !.op = op, !.args = args, !.exc = s.exc, !.value = s.value,
                          !.log = <<>>]
    /\ UNCHANGED <<transport, bulk_txns, bus, sfp>>

\* WishboneI2C.start
I2cStart ==
    /\ Len(wbi2c.queued_wb_writes) + 2 <= MaxQueued
    /\ \E addr \in {80}, rw \in {I2CRW.WRITE} :
          LegacyCommit("start", <<addr, rw>>,
                       IF ~(0 <= addr /\ addr <= 127)
                       THEN [LSt(wbi2c) EXCEPT !.exc = "AssertionError"]
                       ELSE write_wb(write_wb(LSt(wbi2c), WBI2CReg.RXR, (addr * 2) + rw),
                                     WBI2CReg.SR, 144))

\* WishboneI2C.write
I2cWrite ==
    /\ Len(wbi2c.queued_wb_writes) + 2 <= MaxQueued
    /\ \E val \in {20} :
          LegacyCommit("write", <<val>>,
                       write_wb(write_wb(LSt(wbi2c), WBI2CReg.RXR, val), WBI2CReg.SR, 16))

\* WishboneI2C.stop
I2cStop ==
    /\ Len(wbi2c.queued_wb_writes) + 2 <= MaxQueued
    /\ LegacyCommit("stop", <<>>, write_wb(LSt(wbi2c), WBI2CReg.SR, 64))

\* WishboneI2C.read_ack_stop
I2cReadAckStop ==
    /\ Len(wbi2c.queued_wb_writes) + 2 <= MaxQueued
    /\ \E data_out \in DataOuts :
          LegacyCommit("read_ack_stop", <<>>,
                       read_wb(write_wb(LSt(wbi2c), WBI2CReg.SR, 104), WBI2CReg.RXR, data_out))

FlushWrites ==
    LegacyCommit("flush_writes", <<>>, flush_writes(LSt(wbi2c)))

QueueWbWrites ==
    \E queue_writes \in BOOLEAN :
       LegacyCommit("queue_wb_writes", <<queue_writes>>,
                    queue_wb_writes(LSt(wbi2c), queue_writes))

SpecQueueing ==
    /\ Init
    /\ [][ \/ I2cStart
           \/ I2cWrite
           \/ I2cStop
           \/ I2cReadAckStop
           \/ FlushWrites
           \/ QueueWbWrites ]_vars

----------------------------------------------------------------------------
(* MockI2CBus with an SFPMock attached: the four bus calls in any order,   *)
(* and the register read of I2CSFP                                         *)

MaxReads == 2

\* out.reads: the register reads that succeeded in a row
MockCommit(op, args, s, reads) ==
    /\ bus' = s.bus
    /\ sfp' = s.sfp
    /\ out' = [op |-> op, args |-> args, exc |-> s.exc, value |-> s.value, log |-> s.log,
               window |-> s.window, reads |-> reads]
    /\ UNCHANGED <<transport, wbi2c, xem_pipe, bulk_txns>>

\* 0xA0 >> 1 and 0xA2 >> 1 select the SFPMock, 0x20 selects nobody, 128 is
\* no 7-bit address
MockStart ==
    \E addr \in {80, 81, 32, 128}, rw \in {I2CRW.WRITE, I2CRW.READ} :
       MockCommit("start", <<addr, rw>>,
                  MockI2CBus_start(MSt(bus, sfp, out.window), addr, rw), 0)

MockWrite ==
    \E data \in {0, 20} :
       MockCommit("write", <<data>>, MockI2CBus_write(MSt(bus, sfp, out.window), data), 0)

MockStop ==
    MockCommit("stop", <<>>, MockI2CBus_stop(MSt(bus, sfp, out.window)), 0)

MockReadAckStop ==
    MockCommit("read_ack_stop", <<>>, MockI2CBus_read_ack_stop(MSt(bus, sfp, out.window)), 0)

\* the banks are SFPBank.INFO and SFPBank.DIAG
ReadSfpAddr ==
    \E bank \in {160, 162}, sfp_reg_addr \in {0, 20} :
       LET s == read_sfp_addr(MSt(bus, sfp, out.window), bank, sfp_reg_addr)
       IN  MockCommit("__read_sfp_addr", <<bank, sfp_reg_addr>>, s,
                      IF s.exc = "none" THEN Min2(out.reads + 1, MaxReads) ELSE 0)

SpecMock ==
    /\ Init
    /\ [][ \/ MockStart
           \/ MockWrite
           \/ MockStop
           \/ MockReadAckStop
           \/ ReadSfpAddr ]_vars

----------------------------------------------------------------------------
(* Properties *)

InQueue(id) == \E i \in 1..Len(cmd_queue) : cmd_queue[i].h.id = id

BatchEmpty == cmd_buffer = <<>> /\ cmd_queue = <<>> /\ cmd_queue_output_size = 0

\* the handler calls of the last public call, and those that raised
Handles == {i \in 1..Len(trace) : trace[i].ev = "handle"}

Raisers == {i \in Handles : trace[i].raised}

\* the block pipe read that filled the buffer the i-th event's slice is cut from
ReadBefore(tr, i) ==
    CHOOSE j \in 1..i : tr[j].ev = "read" /\ \A k \in (j + 1)..i : tr[k].ev = "handle"

\* the last call ended right after queue() appended its request
JustQueued ==
    /\ ret.op \in {"read", "modify", "burst_read", "burst_write"}
    /\ ret.id >= 0
    /\ cmd_queue # <<>>
    /\ cmd_queue[Len(cmd_queue)].h.id = ret.id

\* C1: right after every queue() call the output buffer and the expected
\* response length are both at most MAX_FIFO_SIZE (every single command and
\* response of the calls made being at most MAX_FIFO_SIZE).
C1_CapacityInvariant ==
    JustQueued =>
        /\ ByteLen(cmd_buffer) <= MAX_FIFO_SIZE
        /\ cmd_queue_output_size <= MAX_FIFO_SIZE

\* a call appended the request it encoded with counter value seq
Appended == seq' = seq + 1 /\ ret'.id = seq /\ seq \in DOMAIN reqs' /\ reqs'[seq].queued

\* C2: queue() flushes the pending batch before appending whenever the output
\* buffer OR the expected response length would exceed MAX_FIFO_SIZE: the first
\* thing such a call does is write the pending batch, and only it, to the pipe.
C2_FlushOnEitherOverflow ==
    [][(/\ Appended
        /\ cmd_queue # <<>>
        /\ \/ ByteLen(cmd_buffer) + reqs'[seq].cmd_len > MAX_FIFO_SIZE
           \/ cmd_queue_output_size + reqs'[seq].read_size > MAX_FIFO_SIZE)
       => (/\ trace' # <<>>
           /\ trace'[1].ev = "write"
           /\ trace'[1].buf = cmd_buffer)]_vars

\* C3: every WriteToBlockPipeIn carries at most MAX_FIFO_SIZE bytes and every
\* ReadFromBlockPipeOut asks for at most MAX_FIFO_SIZE bytes.
C3_TransferBound ==
    \A i \in 1..Len(trace) :
        trace[i].ev \in {"write", "read"} => trace[i].hi <= MAX_FIFO_SIZE

\* C4: in a flush the handlers run in enqueue order, the i-th on the bytes
\* [s1 + .. + s(i-1), s1 + .. + si) of the response: the first slice starts at 0,
\* each next one where the previous ended, each is as long as its request's
\* expected response, and the last ends where the buffer that was read ends.
C4_DemuxOrder ==
    \A i \in Handles :
        /\ i > 1
        /\ trace[i].id \in DOMAIN reqs
        /\ trace[i].hi - trace[i].lo = reqs[trace[i].id].read_size
        /\ IF trace[i - 1].ev = "handle"
           THEN trace[i].lo = trace[i - 1].hi /\ trace[i - 1].id < trace[i].id
           ELSE trace[i - 1].ev = "read" /\ trace[i].lo = 0
        /\ (i = Len(trace) \/ trace[i + 1].ev # "handle")
              => trace[i].hi = trace[ReadBefore(trace, i)].hi

\* three requests expecting 16, 32 and 16 bytes were cut [0:16], [16:48], [48:64]
C4_Witness ==
    \E i \in Handles :
        /\ i + 2 = Len(trace)
        /\ trace[i - 1].ev = "read" /\ trace[i - 1].hi = 64
        /\ <<trace[i].lo, trace[i].hi>> = <<0, 16>>
        /\ <<trace[i + 1].lo, trace[i + 1].hi>> = <<16, 48>>
        /\ <<trace[i + 2].lo, trace[i + 2].hi>> = <<48, 64>>

\* C5: a flush calls the handler of every queued request exactly once, also of
\* those queued behind one whose handler raised: a request queue() appended is
\* either still queued and never handled, or out of the queue and handled once,
\* its value decoded.
C5_EveryHandlerOnce ==
    /\ \A id \in DOMAIN reqs :
          reqs[id].queued =>
             IF InQueue(id) THEN reqs[id].ncalls = 0
             ELSE /\ reqs[id].ncalls = 1
                  /\ reqs[id].op \in {"read", "modify", "burst_read"} => reqs[id].data_set
    /\ \A i, j \in Handles : trace[i].id = trace[j].id => i = j

\* a handler raised and the handler of a request queued behind it decoded its value
C5_Witness ==
    \E i, j \in Handles :
        /\ i < j
        /\ trace[i].raised /\ ~trace[j].raised
        /\ reqs[trace[j].id].ncalls = 1 /\ reqs[trace[j].id].data_set

\* C6: when handlers raise in a flush the call raises the error of the earliest
\* failing request in queue order, and when none raises it returns normally.
C6_FirstErrorWins ==
    IF Raisers = {}
    THEN ~IsExc(ret.exc)
    ELSE LET first == CHOOSE i \in Raisers : \A j \in Raisers : i <= j
         IN  /\ ret.exc.id = trace[first].id
             /\ ret.exc.kind \in {"AssertionError:header", "AssertionError:timeout",
                                  "AssertionError:addr"}

\* two handlers raised, neither the first of the batch, and the earlier one's error came out
C6_Witness ==
    \E i, j \in Raisers :
        /\ i < j
        /\ trace[i - 1].ev = "handle" /\ ~trace[i - 1].raised
        /\ ret.exc.id = trace[i].id

\* C7: after a flush in which handlers raised the batch is empty when the error
\* comes out, and no request has been handled twice.
C7_ClearedDespiteFailure ==
    /\ Raisers # {} => BatchEmpty
    /\ \A id \in DOMAIN reqs : reqs[id].ncalls <= 1

\* a flush of two or more requests raised and left nothing queued
C7_Witness ==
    /\ Raisers # {}
    /\ Cardinality(Handles) >= 2
    /\ IsExc(ret.exc)
    /\ BatchEmpty

\* C8: whenever flush_queue returns or raises, for whatever reason, the batch
\* is empty afterwards (fetch, flush_queue and write end with flush_queue).
C8_EmptyAfterAnyFlush ==
    ret.op \in {"flush_queue", "fetch", "write"} => BatchEmpty

\* the command bytes and the response bytes of the requests handled after the
\* block pipe read at index j of tr
RECURSIVE SegCmdLen(_, _, _)
SegCmdLen(rq, tr, j) ==
    IF j > Len(tr) \/ tr[j].ev # "handle" THEN 0
    ELSE rq[tr[j].id].cmd_len + SegCmdLen(rq, tr, j + 1)

RECURSIVE SegReadSize(_, _, _)
SegReadSize(rq, tr, j) ==
    IF j > Len(tr) \/ tr[j].ev # "handle" THEN 0
    ELSE rq[tr[j].id].read_size + SegReadSize(rq, tr, j + 1)

RECURSIVE SegCount(_, _)
SegCount(tr, j) ==
    IF j > Len(tr) \/ tr[j].ev # "handle" THEN 0 ELSE 1 + SegCount(tr, j + 1)

\* the pipe calls of a call come in pairs, a write then a read, handlers only
\* after the read; the write carries the commands of exactly the requests handled
\* after it and the read asks for exactly their responses
RoundTrips(rq, tr) ==
    \A i \in 1..Len(tr) :
        /\ tr[i].ev = "write" =>
              /\ i < Len(tr) /\ tr[i + 1].ev = "read"
              /\ tr[i].hi = ByteLen(tr[i].buf)
              /\ tr[i].hi = SegCmdLen(rq, tr, i + 2)
        /\ tr[i].ev = "read" =>
              /\ i > 1 /\ tr[i - 1].ev = "write"
              /\ tr[i].hi = SegReadSize(rq, tr, i + 1)
        /\ tr[i].ev = "handle" => i > 1 /\ tr[i - 1].ev \in {"read", "handle"}

\* C9: a flush of a non-empty batch makes exactly one WriteToBlockPipeIn, of
\* the whole output buffer, then exactly one ReadFromBlockPipeOut of exactly
\* cmd_queue_output_size bytes, and runs the handlers only after both; a flush
\* of an empty batch touches no pipe.
C9_OneRoundTripPerFlush ==
    [][/\ RoundTrips(reqs', trace')
       /\ ret'.op \in {"flush_queue", "fetch"} =>
             IF cmd_queue = <<>> THEN trace' = <<>>
             ELSE /\ Len(trace') = 2 + Len(cmd_queue)
                  /\ trace'[1] = Event("write", -1, 0, ByteLen(cmd_buffer), cmd_buffer, FALSE)
                  /\ trace'[2] = Event("read", -1, 0, cmd_queue_output_size, <<>>, FALSE)
                  /\ \A k \in 1..Len(cmd_queue) :
                        trace'[2 + k].ev = "handle" /\ trace'[2 + k].id = cmd_queue[k].h.id
       /\ (Appended /\ trace' # <<>>) =>
             \/ /\ cmd_queue' = <<>>
                /\ Len(trace') = 3 + Len(cmd_queue)
                /\ trace'[1].hi = ByteLen(cmd_buffer) + reqs'[seq].cmd_len
                /\ Take(trace'[1].buf, WordLen(cmd_buffer)) = cmd_buffer
                /\ trace'[2].hi = cmd_queue_output_size + reqs'[seq].read_size
             \/ /\ cmd_queue # <<>>
                /\ trace'[1].buf = cmd_buffer
                /\ trace'[2].hi = cmd_queue_output_size
                /\ SegCount(trace', 3) = Len(cmd_queue)
                /\ IF cmd_queue' = <<>>
                   THEN /\ Len(trace') = 5 + Len(cmd_queue)
                        /\ trace'[Len(trace') - 2].hi = reqs'[seq].cmd_len
                        /\ trace'[Len(trace') - 1].hi = reqs'[seq].read_size
                   ELSE Len(trace') = 2 + Len(cmd_queue)]_vars

\* one call made two round trips: the pending batch first, then its own request
C9_Witness ==
    \E i, j \in 1..Len(trace) :
        /\ i < j
        /\ trace[i].ev = "write" /\ trace[j].ev = "write"
        /\ trace[Len(trace)].ev = "handle"
        /\ BatchEmpty

\* the slot of the batch the i-th event's request had
Position(i) == i - ReadBefore(trace, i)

\* C10: a request whose handler did not raise decodes exactly the data the
\* device put in its frame (word 1 of a single frame, words 1..size of a burst
\* frame), and the call or the accessor returns that value.
C10_RoundTripDecode ==
    /\ \A i \in Handles :
          ~trace[i].raised =>
             LET r == reqs[trace[i].id]
                 k == Position(i)
             IN  CASE r.op \in {"read", "modify"} ->
                        r.data_set /\ Expand(r.data) = <<PayloadWord(k, 1)>>
                   [] r.op = "burst_read" ->
                        /\ r.data_set
                        /\ Expand(r.data) = [j \in 1..r.size |-> PayloadWord(k, j)]
                   [] OTHER -> ~r.data_set
    /\ (/\ ret.op \in {"read", "modify", "burst_read", "fetch"}
        /\ ret.id >= 0
        /\ ~IsExc(ret.exc)
        /\ ~ret.future) =>
          /\ ret.value.type \in {"int", "list", "tuple"}
          /\ Expand(ret.value.v) = Expand(reqs[ret.id].data)
          /\ Len(Expand(ret.value.v)) = reqs[ret.id].size

\* a burst read in the second slot of a batch returned the words of its own frame
C10_Witness ==
    \E i \in Handles :
        /\ Position(i) >= 2
        /\ trace[i].id = ret.id
        /\ ret.op = "burst_read"
        /\ ~IsExc(ret.exc)
        /\ ret.value.type = "tuple"
        /\ Expand(ret.value.v) = [j \in 1..5 |-> PayloadWord(Position(i), j)]

\* header bits 15-22: the sequence tag of a command
Tag(header) == (header[2] \div 32768) + 2 * (header[1] % 128)

\* C11: among the commands queued between two flushes no two carry the same
\* 8-bit sequence tag, and the tag strictly increases from each command to
\* the next one issued.
C11_SequenceUniqueness ==
    \A i \in 1..Len(cmd_queue) : \A j \in (i + 1)..Len(cmd_queue) :
        /\ Tag(cmd_queue[i].h.header) # Tag(cmd_queue[j].h.header)
        /\ j = i + 1 => Tag(cmd_queue[i].h.header) < Tag(cmd_queue[j].h.header)

\* the last call encoded a command
Encoded(r) == r.op \in {"read", "write", "modify", "burst_read", "burst_write"} /\ r.id >= 0

\* C12: every successful _encode consumes exactly one counter value and puts
\* (counter mod 256) in header bits 15-22, so a command's tag is the previous
\* command's tag plus one, mod 256; calls that encode nothing leave the
\* counter alone.
C12_TagConsumption ==
    [][IF Encoded(ret')
       THEN /\ seq' = seq + 1
            /\ ret'.id = seq
            /\ Tag(At(reqs'[seq].cmd, 1)) = seq % 256
            /\ (seq - 1) \in DOMAIN reqs =>
                  Tag(At(reqs'[seq].cmd, 1)) = (Tag(At(reqs[seq - 1].cmd, 1)) + 1) % 256
       ELSE seq' = seq]_vars

\* the 257th command took counter value 256 and tag 0, after tag 255
C12_Witness ==
    /\ seq = 257
    /\ Encoded(ret)
    /\ ret.id = 256
    /\ Tag(At(reqs[256].cmd, 1)) = 0
    /\ 255 \in DOMAIN reqs
    /\ Tag(At(reqs[255].cmd, 1)) = 255

\* C13: the sequence counter is one counter shared by all instances of the
\* process: a command encoded on one instance after k commands were encoded on
\* the other (and n on itself) takes the tag (n + k) mod 256, and never a
\* counter value the other instance has handed out.
C13_ProcessWideCounter ==
    [][(Encoded(ret') /\ seq' = seq + 1) =>
          /\ Tag(At(reqs'[ret'.id].cmd, 1)) = (seq + other.seq) % 256
          /\ ret'.id >= other.seq]_vars

\* _encode returned
Returned == ret.op = "_encode" /\ ~IsExc(ret.exc)

\* C14: for in-range inputs the header _encode returns is
\* opcode | size<<2 | (seq mod 256)<<15 | atomic<<23 | addr_incr<<24: every field
\* reads back from its own bit range, the header fits in 32 bits and is the
\* first word of the encoded bytes; a single write of d to a encodes as
\* [header, a, 0xDEADBEEF, d].
C14_HeaderLayout ==
    Returned =>
       LET a == ret.args
           tag == ret.id % 256
           header == At(ret.value.v, 1)
           frame == Drop(ret.value.v, 1)
       IN  /\ header = <<(tag \div 2) + 128 * a.block_position + 256 * a.addr_incr,
                         a.cmd + 4 * a.size + 32768 * (tag % 2)>>
           /\ header[2] % 4 = a.cmd
           /\ (header[2] \div 4) % 8192 = a.size
           /\ Tag(header) = tag
           /\ (header[1] \div 128) % 2 = a.block_position
           /\ header[1] \div 256 = a.addr_incr
           /\ IsU32(header)
           /\ At(frame, 1) = header
           /\ (a.cmd = 1 /\ a.size = 1) =>
                 Expand(frame) = <<header, W(a.addr), DEFAULT_MASK, a.base>>

\* a single atomic write encoded with every header field set, the counter past 256
C14_Witness ==
    /\ Returned
    /\ ret.id = 257
    /\ ret.args.cmd = 1 /\ ret.args.size = 1
    /\ ret.args.block_position = 1 /\ ret.args.addr_incr = 255
    /\ At(ret.value.v, 1) = <<65408, 32773>>

\* the shapes of _encode call the public operations make: a read of any
\* size, a single operation, a write of several words
PublicShape(a) == a.cmd = 0 \/ (a.size = 1 /\ a.cmd < 3) \/ (a.cmd = 1 /\ a.size > 1)

\* C15: every command frame of the public operations is a multiple of 4 words
\* long: exactly the 4 words header, address, mask, payload-or-sentinel for a
\* read of any size and for a single operation; for a write of N > 1 words the
\* 3 leading words, the N payload words, then mask words up to the next
\* multiple of 4.
C15_FrameAlignment ==
    (Returned /\ PublicShape(ret.args)) =>
       LET a == ret.args
           header == At(ret.value.v, 1)
           frame == Drop(ret.value.v, 1)
           n == WordLen(frame)
       IN  /\ n % 4 = 0
           /\ Expand(Slice(frame, 0, 3)) = <<header, W(a.addr), a.mask>>
           /\ (a.cmd = 0 \/ a.size = 1) => n = 4
           /\ (a.cmd = 1 /\ a.size = 1) => At(frame, 4) = a.base
           /\ (a.cmd = 1 /\ a.size > 1) =>
                 /\ n >= 3 + a.size /\ n < 3 + a.size + 4
                 /\ Slice(frame, 3, 3 + a.size) = BurstData(a.base, a.size)
                 /\ \A k \in (3 + a.size + 1)..n : At(frame, k) = a.mask

\* a write of two words: 3 + 2 words and three mask words make 8
C15_Witness ==
    /\ Returned
    /\ ret.args.cmd = 1 /\ ret.args.size = 2
    /\ WordLen(Drop(ret.value.v, 1)) = 8
    /\ Expand(Slice(Drop(ret.value.v, 1), 5, 8)) = <<DEFAULT_MASK, DEFAULT_MASK, DEFAULT_MASK>>

\* ceil((N + 3) / 4) * 4
CeilWords(N) == ((N + 3 + 3) \div 4) * 4

\* C16 as stated: the total word count of a burst of size N is
\* ceil((N+3)/4)*4, which is 4 words for N = 1 and 12 words for N = 5.
C16_BurstWordCountAsStated ==
    (Returned /\ ret.args.cmd = 1) =>
       LET N == ret.args.size
           n == WordLen(Drop(ret.value.v, 1))
       IN  /\ n = CeilWords(N)
           /\ N = 1 => n = 4
           /\ N = 5 => n = 12

\* C16, amended: the total word count of a burst of size N is
\* ceil((N+3)/4)*4, which is 4 words for N = 1 and 8 words for N = 5.
C16_BurstWordCount ==
    (Returned /\ ret.args.cmd = 1) =>
       LET N == ret.args.size
           n == WordLen(Drop(ret.value.v, 1))
       IN  /\ n = CeilWords(N)
           /\ N = 1 => n = 4
           /\ N = 5 => n = 8

\* a write of five words was encoded in 8 words
C16_Witness ==
    /\ Returned
    /\ ret.args.cmd = 1 /\ ret.args.size = 5
    /\ WordLen(Drop(ret.value.v, 1)) = 8

\* the response lengths a queue entry or a handler call shows to have been
\* registered: those of the queued requests and of the slices handled
Registered ==
    {<<cmd_queue[i].h.op, cmd_queue[i].h.size, cmd_queue[i].read_size>> : i \in 1..Len(cmd_queue)}
    \cup {<<reqs[trace[i].id].op, reqs[trace[i].id].size, trace[i].hi - trace[i].lo>> : i \in Handles}

\* C17 as stated: the response size registered with the queue is 16 bytes for
\* read, write and modify, and ceil((size+3)/4)*4 words for every burst
\* operation of size >= 2, burst_read and burst_write alike.
C17_ResponseLengthAsStated ==
    \A x \in Registered :
        /\ x[1] \in {"read", "write", "modify"} => x[3] = 16
        /\ x[1] \in {"burst_read", "burst_write"} => x[2] >= 2 /\ x[3] = 4 * CeilWords(x[2])

\* C17, amended: the response size registered with the queue is 16 bytes for
\* read, write and modify and for burst_write of any size >= 2, and
\* ceil((size+3)/4)*4 words for burst_read of size >= 2.
C17_ResponseLength ==
    \A x \in Registered :
        /\ x[1] \in {"read", "write", "modify"} => x[3] = 16
        /\ x[1] = "burst_write" => x[2] >= 2 /\ x[3] = 16
        /\ x[1] = "burst_read" => x[2] >= 2 /\ x[3] = 4 * CeilWords(x[2])

\* a burst write of 2 words expecting 16 bytes and a burst read of 1744 words
\* expecting 1748 words, one of them padding
C17_Witness ==
    /\ <<"burst_write", 2, 16>> \in Registered
    /\ <<"burst_read", 1744, 6992>> \in Registered
    /\ \E i \in Handles : reqs[trace[i].id].op = "burst_read" /\ ~trace[i].raised

\* the fields of the response slice the i-th event's handler was called on:
\* res[0], res[-2], res[-1]
EchoedHeader(i) == At(trace[i].buf, 1)

EchoedAddr(i) == At(trace[i].buf, WordLen(trace[i].buf) - 1)

TimeOut(i) == At(trace[i].buf, WordLen(trace[i].buf))

\* the request the i-th event's handler belongs to, and the header it was encoded with
Req(i) == reqs[trace[i].id]

SentHeader(i) == At(Req(i).cmd, 1)

IsBurst(r) == r.op \in {"burst_read", "burst_write"}

\* C18: a scalar operation's handler accepts a response only if the echoed
\* address is the requested address, a burst operation's handler (size >= 2)
\* only if it is address + (size - 1) * addr_incr; with any other echoed
\* address the handler raises.
C18_AddressEcho ==
    \A i \in Handles :
        /\ IsBurst(Req(i)) => Req(i).size >= 2
        /\ ~trace[i].raised =>
              EchoedAddr(i) = IF IsBurst(Req(i))
                              THEN W(Req(i).addr + (Req(i).size - 1) * Req(i).addr_incr)
                              ELSE W(Req(i).addr)

\* a burst frame, right but for the echoed address, was refused, and a burst
\* read frame echoing the address of its last word was accepted
C18_Witness ==
    \E i, j \in Handles :
        /\ IsBurst(Req(i))
        /\ trace[i].raised
        /\ EchoedHeader(i) = SentHeader(i) /\ TimeOut(i) = W(0)
        /\ EchoedAddr(i) # W(Req(i).addr + (Req(i).size - 1) * Req(i).addr_incr)
        /\ Req(j).op = "burst_read" /\ ~trace[j].raised
        /\ Req(j).size = 5 /\ Req(j).addr_incr = 4
        /\ EchoedAddr(j) = W(Req(j).addr + 16)

\* the address a faithful frame echoes to the i-th event's request
ExpectedEcho(i) ==
    IF IsBurst(Req(i)) THEN W(Req(i).addr + (Req(i).size - 1) * Req(i).addr_incr)
    ELSE W(Req(i).addr)

\* the i-th event's frame echoes header and address correctly
GoodEcho(i) == EchoedHeader(i) = SentHeader(i) /\ EchoedAddr(i) = ExpectedEcho(i)

\* the i-th event's handler is the first of the call to have raised
FirstRaiser(i) == i \in Raisers /\ \A j \in Raisers : i <= j

\* the block pipe writes of the last call
PipeWrites == {k \in 1..Len(trace) : trace[k].ev = "write"}

\* a frame that echoes header and address and has timeout field 0 decodes with
\* no error; with a non-zero timeout field it makes the flush raise a timeout
\* error, carrying address a when it is the first error of the flush; the
\* batch went over the pipe once and is not sent again
TimeoutSurfaced(i, a) ==
    /\ TimeOut(i) = W(0) => ~trace[i].raised
    /\ TimeOut(i) # W(0) =>
          /\ trace[i].raised
          /\ IsExc(ret.exc)
          /\ FirstRaiser(i) =>
                ret.exc = [kind |-> "AssertionError:timeout", id |-> trace[i].id, addr |-> a]
          /\ Cardinality(PipeWrites) = 1
          /\ Req(i).ncalls = 1
          /\ BatchEmpty

\* C19 as stated: for every operation type the timeout error carries the
\* operation's address.
C19_DeviceTimeoutAsStated ==
    \A i \in Handles : GoodEcho(i) => TimeoutSurfaced(i, W(Req(i).addr))

\* C19, amended: for every operation type the timeout error carries the
\* address the frame echoes: the operation's address for read, write and
\* modify, address + (size - 1) * addr_incr for a burst of size >= 2.
C19_DeviceTimeout ==
    \A i \in Handles : GoodEcho(i) => TimeoutSurfaced(i, EchoedAddr(i))

\* a write to 0x1000 whose frame came back with timeout 1 raised a timeout
\* error carrying 0x1000
C19_Witness ==
    /\ ret.op = "write"
    /\ ret.exc.kind = "AssertionError:timeout"
    /\ ret.exc.addr = W(4096)
    /\ \E i \in Handles :
          /\ trace[i].id = ret.exc.id
          /\ Req(i).op = "write" /\ Req(i).addr = 4096
          /\ GoodEcho(i)
          /\ TimeOut(i) = W(1)

\* the requests that left the batch in the last call behind the i-th event's request
Behind(i) ==
    {id \in DOMAIN reqs : id > trace[i].id /\ reqs[id].queued /\ ~InQueue(id)}

\* C20: for every operation type, a response slice whose first word is not the
\* header _encode returned for the request makes the request's handler raise,
\* the flush surfaces an error (this one when it is the first of the batch),
\* and every request behind it in the batch is still handed its slice, once.
C20_DesyncDetection ==
    \A i \in Handles :
        EchoedHeader(i) # SentHeader(i) =>
            /\ trace[i].raised
            /\ IsExc(ret.exc)
            /\ FirstRaiser(i) =>
                  ret.exc = [kind |-> "AssertionError:header", id |-> trace[i].id, addr |-> NoWord]
            /\ \A id \in Behind(i) :
                  /\ \E j \in Handles : j > i /\ trace[j].id = id
                  /\ reqs[id].ncalls = 1
            /\ \A j \in Handles :
                  j > i /\ GoodEcho(j) /\ TimeOut(j) = W(0) => ~trace[j].raised

\* a frame with a wrong header made a flush raise the header error while the
\* request queued behind it decoded its own frame
C20_Witness ==
    \E i, j \in Handles :
        /\ i < j
        /\ EchoedHeader(i) # SentHeader(i)
        /\ ret.exc = [kind |-> "AssertionError:header", id |-> trace[i].id, addr |-> NoWord]
        /\ trace[j].id \in Behind(i)
        /\ GoodEcho(j) /\ ~trace[j].raised
        /\ Req(j).ncalls = 1 /\ Req(j).data_set

\* the handler calls among the events tr that raised on request id's frame
FailedIn(tr, id) ==
    {i \in 1..Len(tr) : tr[i].ev = "handle" /\ tr[i].id = id /\ tr[i].raised}

\* C21: an accessor never returns normally for a request whose response frame
\* failed the header, address or timeout check, be it in the accessor's own
\* flush or in the flush of the call made before the accessor was invoked.
C21_NoSilentlyDroppedError ==
    [][(ret'.op = "fetch" /\ ~IsExc(ret'.exc)) =>
          FailedIn(trace, ret'.id) = {} /\ FailedIn(trace', ret'.id) = {}]_vars

\* the bytes the block pipe writes of the events tr carried, in order
RECURSIVE Written(_)
Written(tr) ==
    IF tr = <<>> THEN <<>>
    ELSE (IF Head(tr).ev = "write" THEN Head(tr).buf ELSE <<>>) \o Written(Tail(tr))

\* the value a handler of operation op decodes from the response slice buf
Decoded(op, size, buf) ==
    IF op = "burst_read" THEN TupleVal(Slice(buf, 1, size + 1)) ELSE IntVal(At(buf, 2))

\* a call of operation op encoded its command with counter value seq, made the
\* request op makes itself, and returned normally
ReturnedFrom(op) ==
    /\ ret'.op = op
    /\ ~IsExc(ret'.exc)
    /\ seq' = seq + 1
    /\ seq \in DOMAIN reqs'
    /\ reqs'[seq].op = op

\* C22: when read, modify or burst_read (size >= 2) called with future=False
\* returns normally, the queue is empty, the pipe has been written the
\* commands deferred before the call followed by the call's own command, and
\* the value returned is the payload of the slice the call's own handler got.
C22_EagerMode ==
    [][\A op \in {"read", "modify", "burst_read"} :
          (ReturnedFrom(op) /\ ~ret'.future) =>
             /\ BatchEmpty'
             /\ Written(trace') = cmd_buffer \o reqs'[seq].cmd
             /\ \E i \in 1..Len(trace') :
                   /\ trace'[i].ev = "handle" /\ trace'[i].id = seq
                   /\ \A j \in 1..Len(trace') :
                         (trace'[j].ev = "handle" /\ trace'[j].id = seq) => j = i
                   /\ ret'.value = Decoded(op, reqs'[seq].size, trace'[i].buf)]_vars

\* an eager burst_read of 5 words returned the 5 words of its own slice after
\* the batch it flushed had carried two commands deferred before it
C22_Witness ==
    /\ ret.op = "burst_read" /\ ~ret.future /\ ~IsExc(ret.exc)
    /\ BatchEmpty
    /\ Cardinality(Handles) = 3
    /\ \E i \in Handles :
          /\ trace[i].id = ret.id
          /\ Req(i).op = "burst_read" /\ Req(i).size = 5
          /\ ret.value = TupleVal(Slice(trace[i].buf, 1, 6))
          /\ \A j \in Handles : j # i => Req(j).future /\ j < i

\* the block pipe events among the events tr
PipeEvents(tr, ev) == {i \in 1..Len(tr) : tr[i].ev = ev}

\* the call just made was issued with future=True and its command and
\* response fit in the FIFO together with those already queued
DeferredFits ==
    /\ ret'.op \in {"read", "modify", "burst_read"}
    /\ ret'.future
    /\ seq' = seq + 1 =>
          /\ seq \in DOMAIN reqs'
          /\ ByteLen(cmd_buffer) + reqs'[seq].cmd_len <= MAX_FIFO_SIZE
          /\ cmd_queue_output_size + reqs'[seq].read_size <= MAX_FIFO_SIZE

\* the accessor of a request still queued has just been invoked
FirstInvocation == ret'.op = "fetch" /\ InQueue(ret'.id)

\* the call just made one round trip and handed every request that was queued
\* its slice
OneRoundTripForAll ==
    /\ Cardinality(PipeEvents(trace', "write")) = 1
    /\ Cardinality(PipeEvents(trace', "read")) = 1
    /\ Cardinality(PipeEvents(trace', "handle")) = Len(cmd_queue)
    /\ \A k \in 1..Len(cmd_queue) :
          \E i \in PipeEvents(trace', "handle") : trace'[i].id = cmd_queue[k].h.id
    /\ BatchEmpty'

\* C23: an operation issued with future=True whose command and response fit
\* in the FIFO with the batch makes no block pipe call, and the first
\* invocation of an accessor makes exactly one round trip, which serves every
\* queued operation.
C23_DeferredBatching ==
    [][/\ DeferredFits => PipeEvents(trace', "write") \cup PipeEvents(trace', "read") = {}
       /\ FirstInvocation => OneRoundTripForAll]_vars

\* C24: invoking an accessor that has already returned a value makes no block
\* pipe call and returns the value it returned before, whatever was queued
\* in between.
C24_AccessorResolvesOnce ==
    [][(ret'.op = "fetch" /\ reqs[ret'.id].resolved) =>
          /\ trace' = <<>>
          /\ ~IsExc(ret'.exc)
          /\ ret'.value = DataVal(reqs[ret'.id])]_vars

\* C25: whenever write returns normally the queue is empty, the pipe has been
\* written the commands deferred before the call, in the order they were
\* queued, followed by the write command, the write's handler has run, and
\* write returns None, never an accessor.
C25_WriteAlwaysFlushes ==
    [][ReturnedFrom("write") =>
          /\ BatchEmpty'
          /\ Written(trace') = cmd_buffer \o reqs'[seq].cmd
          /\ Len(trace') > 0
          /\ trace'[Len(trace')].ev = "handle" /\ trace'[Len(trace')].id = seq
          /\ reqs'[seq].ncalls = 1
          /\ ~ret'.future /\ ret'.value = NoneVal /\ ~reqs'[seq].accessor]_vars

\* a write returned after one pipe write that carried two deferred commands
\* and then its own, its handler being the last to run
C25_Witness ==
    /\ ret.op = "write" /\ ~IsExc(ret.exc)
    /\ BatchEmpty
    /\ Cardinality(PipeWrites) = 1
    /\ Cardinality(Handles) = 3
    /\ trace[Len(trace)].ev = "handle" /\ trace[Len(trace)].id = ret.id
    /\ Req(Len(trace)).op = "write"
    /\ \A j \in Handles : j < Len(trace) => Req(j).future /\ trace[j].id < ret.id
    /\ \E k \in PipeWrites : WordLen(trace[k].buf) = 12 /\ Slice(trace[k].buf, 8, 12) = Req(Len(trace)).cmd

\* C26: when burst_write of two or more words returns normally, its command
\* has been written to the pipe, its handler has verified its response and the
\* queue is empty.
C26_BurstWriteCompletes ==
    [][ReturnedFrom("burst_write") =>
          /\ BatchEmpty'
          /\ Written(trace') = cmd_buffer \o reqs'[seq].cmd
          /\ reqs'[seq].ncalls = 1]_vars

\* C27: burst_read called with future=True and a size of 1 or more makes no
\* block pipe call, leaves its command queued and returns an accessor; the
\* first invocation of the accessor flushes and returns the words of the
\* request's own slice.
C27_BurstReadDeferred ==
    [][/\ (ret'.op = "burst_read" /\ ret'.future /\ ~IsExc(ret'.exc) /\ seq' = seq + 1) =>
             /\ trace' = <<>>
             /\ ret'.value = FetchVal(seq)
             /\ cmd_queue' = Append(cmd_queue, cmd_queue'[Len(cmd_queue')])
             /\ cmd_queue'[Len(cmd_queue')].h.id = seq
       /\ (FirstInvocation /\ reqs[ret'.id].op = "burst_read" /\ ~IsExc(ret'.exc)) =>
             /\ OneRoundTripForAll
             /\ \E i \in PipeEvents(trace', "handle") :
                   /\ trace'[i].id = ret'.id
                   /\ ret'.value = Decoded("burst_read", reqs[ret'.id].size, trace'[i].buf)]_vars

\* the last call was a burst_read or burst_write of n words
BurstOf(r, n) == r.op \in {"burst_read", "burst_write"} /\ r.args.size = n

\* C28: burst_read with size 0 and burst_write with empty data change nothing:
\* the counter, the queue, the buffer and the expected response length are as
\* before, the closures alive are the same, no block pipe call is made, and
\* the call returns [] (burst_read) or None (burst_write).
C28_SizeZeroNoOp ==
    [][BurstOf(ret', 0) =>
          /\ UNCHANGED <<seq, cmd_queue, cmd_buffer, cmd_queue_output_size>>
          /\ reqs' = [id \in Live |-> reqs[id]]
          /\ trace' = <<>>
          /\ ~IsExc(ret'.exc)
          /\ ret'.value = IF ret'.op = "burst_read" THEN ListVal(<<>>) ELSE NoneVal]_vars

\* a burst_write with empty data returned with two deferred commands still queued
C28_Witness ==
    /\ BurstOf(ret, 0)
    /\ ret.op = "burst_write"
    /\ seq = 2
    /\ Len(cmd_queue) = 2
    /\ cmd_queue_output_size = 48
    /\ trace = <<>>

\* the call just made left the instance, the pipe traffic and the exception
\* raised exactly as the call whose outcome is r would have
SameAs(r) ==
    /\ seq' = r.seq
    /\ cmd_queue' = r.cmd_queue
    /\ cmd_buffer' = r.cmd_buffer
    /\ cmd_queue_output_size' = r.cmd_queue_output_size
    /\ reqs' = r.reqs
    /\ trace' = r.trace
    /\ ret'.exc = r.exc

\* C29: burst_read(addr, 1, incr) does exactly what read(addr) does, with the
\* same atomic-group flag and for any bridge answer: the same frame queued and
\* sent, the same fields, pipe calls and handler calls, the same exception;
\* and returns the list of read's value.  burst_write(addr, [d], incr) does
\* exactly what write(addr, d) does.
C29_SizeOneIsScalar ==
    [][BurstOf(ret', 1) =>
          LET c == ret'.args
          IN  \E e1 \in QueueEnvs(St, 16, 16, Faulty) :
                 IF ret'.op = "burst_read"
                 THEN \E e2 \in FlushEnvs(read_queue(St, c.addr, c.in_transaction, FALSE, e1),
                                          TRUE, Faulty) :
                         \E r \in {read(St, c.addr, c.in_transaction, FALSE, e1, e2)} :
                             /\ SameAs(r)
                             /\ ~IsExc(r.exc) =>
                                   /\ r.value.type = "int"
                                   /\ ret'.value = ListVal(r.value.v)
                 ELSE \E e2 \in FlushEnvs(write_queue(St, c.addr, c.base, c.in_transaction, e1),
                                          TRUE, Faulty) :
                         \E r \in {write(St, c.addr, c.base, c.in_transaction, e1, e2)} :
                             SameAs(r) /\ ret'.value = r.value]_vars

\* burst_read(0x1000, 1, addr_incr=255, in_transaction=True, future=True)
\* flushed a deferred read and its own, sent read's frame (size field 1,
\* increment field 0, flag set) and returned the one-element list
C29_Witness ==
    /\ BurstOf(ret, 1)
    /\ ret.op = "burst_read" /\ ret.future /\ ~IsExc(ret.exc)
    /\ ret.args.addr_incr = 255 /\ ret.args.in_transaction = 1
    /\ Cardinality(Handles) = 2
    /\ \E i \in Handles :
          /\ trace[i].id = ret.id
          /\ SentHeader(i) = Or(Or(Shl(1, 2), Shl(BitAnd255(ret.id), 15)), Shl(1, 23))
          /\ ret.value = ListVal(Runs(At(trace[i].buf, 2), 1, 0))

\* the 13-bit size field of a header
SizeField(header) == (header[2] % 32768) \div 4

\* the handler calls among the events tr
HandlesIn(tr) == {i \in 1..Len(tr) : tr[i].ev = "handle"}

\* C30: a burst_read or burst_write of more than MAX_BURST_SIZE words raises
\* the assertion of _encode, leaving counter, queue, buffer and closures as
\* they were and making no block pipe call; a burst of exactly MAX_BURST_SIZE
\* words is encoded as one command, with 8191 in its size field, and that one
\* command joins the batch.
C30_BurstCeiling ==
    [][/\ (ret'.op \in {"burst_read", "burst_write"} /\ ret'.args.size > MAX_BURST_SIZE) =>
             /\ ret'.exc = [kind |-> "AssertionError:encode", id |-> -1, addr |-> NoWord]
             /\ UNCHANGED <<seq, cmd_queue, cmd_buffer, cmd_queue_output_size>>
             /\ reqs' = [id \in Live |-> reqs[id]]
             /\ trace' = <<>>
       /\ BurstOf(ret', MAX_BURST_SIZE) =>
             /\ ~IsExc(ret'.exc)
             /\ seq' = seq + 1
             /\ DOMAIN reqs' = Live \cup {seq}
             /\ reqs'[seq].queued /\ reqs'[seq].op = ret'.op
             /\ reqs'[seq].size = MAX_BURST_SIZE
             /\ SizeField(At(reqs'[seq].cmd, 1)) = MAX_BURST_SIZE
             /\ Len(cmd_queue') + Cardinality(HandlesIn(trace')) = Len(cmd_queue) + 1
             /\ Written(trace') \o cmd_buffer' = cmd_buffer \o reqs'[seq].cmd]_vars

\* a burst_write of 8192 words was refused while a read and a burst_read of
\* 8191 words, accepted before it, stayed queued
C30_Witness ==
    /\ ret.op = "burst_write" /\ ret.args.size = MAX_BURST_SIZE + 1
    /\ ret.exc.kind = "AssertionError:encode"
    /\ trace = <<>>
    /\ seq = 2
    /\ Len(cmd_queue) = 2
    /\ cmd_queue[1].h.op = "read"
    /\ cmd_queue[2].h.op = "burst_read" /\ cmd_queue[2].h.size = MAX_BURST_SIZE
    /\ cmd_queue[2].read_size = 4 * (MAX_BURST_SIZE + 5)

\* the arguments a break one of the preconditions of _encode
OutOfRange(a) ==
    \/ a.cmd < 0 \/ a.cmd >= 4
    \/ a.size < 0 \/ a.size >= 8192
    \/ a.block_position < 0 \/ a.block_position >= 2
    \/ a.addr_incr < 0 \/ a.addr_incr >= 256

\* the _encode arguments of the burst_read call with arguments c
BurstReadEncode(c) ==
    [cmd |-> 0, size |-> c.size, block_position |-> c.in_transaction, addr_incr |-> c.addr_incr]

\* C31: an _encode call, made directly or by an operation, whose opcode, size,
\* atomic flag or address increment is out of range raises the contract
\* error, makes no block pipe call and leaves the sequence counter, the queue,
\* the buffer, the expected response length and the closures unchanged.
C31_EncodeFailsFast ==
    [][(\/ ret'.op = "_encode" /\ OutOfRange(ret'.args)
        \/ ret'.op = "burst_read" /\ OutOfRange(BurstReadEncode(ret'.args))) =>
          /\ ret'.exc = [kind |-> "AssertionError:encode", id |-> -1, addr |-> NoWord]
          /\ UNCHANGED <<seq, cmd_queue, cmd_buffer, cmd_queue_output_size>>
          /\ reqs' = [id \in Live |-> reqs[id]]
          /\ trace' = <<>>]_vars

\* burst_read with addr_incr = 256 was refused after two commands had been
\* encoded, one of them still queued
C31_Witness ==
    /\ ret.op = "burst_read"
    /\ ret.args.addr_incr = 256 /\ ret.args.in_transaction = 0
    /\ ret.exc.kind = "AssertionError:encode"
    /\ seq = 2
    /\ Len(cmd_queue) = 1
    /\ cmd_queue_output_size = 16

\* C32: flush_queue called while no request is queued makes no block pipe
\* call, calls no handler, raises nothing and leaves cmd_buffer, cmd_queue,
\* cmd_queue_output_size, the sequence counter and the closures unchanged.
C32_EmptyFlushNoOp ==
    [][(ret'.op = "flush_queue" /\ cmd_queue = <<>>) =>
          /\ trace' = <<>>
          /\ ~IsExc(ret'.exc)
          /\ ret'.value = NoneVal
          /\ UNCHANGED <<seq, cmd_queue, cmd_buffer, cmd_queue_output_size>>
          /\ reqs' = [id \in Live |-> reqs[id]]]_vars

\* flush_queue was called with nothing queued, after two commands had been
\* encoded and flushed and with an accessor still held by the caller
C32_Witness ==
    /\ ret.op = "flush_queue"
    /\ ~IsExc(ret.exc)
    /\ trace = <<>>
    /\ seq = 2
    /\ BatchEmpty
    /\ \E id \in DOMAIN reqs : reqs[id].accessor /\ reqs[id].ncalls = 1

\* The handler of a burst read of N words, called on the frame res (words
\* counted from 0), raised exactly when one of word 0, word a and word t is
\* not the header sent, the expected address and 0; whatever the other words
\* after the payload hold makes no difference; and it decoded words 1..N.
LayoutIs(N, res, a, t) ==
    LET h == LayoutHandler(N)
    IN  /\ IsExc(ret.exc) <=>
              ~(/\ res[1] = h.header
                /\ res[a + 1] = W(h.addr + (N - 1) * h.addr_incr)
                /\ res[t + 1] = W(0))
        /\ Expand(ret.value.v) = SubSeq(res, 2, N + 1)

\* C33 as stated: the echoed address is word N+1 and the timeout flag word
\* N+2 of the frame, the padding the words after them.
C33_ResponseLayoutAsStated ==
    ret.op = "burst_read.handle" =>
        LayoutIs(ret.args.size, ret.args.res, ret.args.size + 1, ret.args.size + 2)

\* C33, amended: the echoed address is the last word but one and the timeout
\* flag the last word of the frame of total_words words, the padding the
\* total_words - N - 3 words between the payload and them.
C33_ResponseLayout ==
    ret.op = "burst_read.handle" =>
        LayoutIs(ret.args.size, ret.args.res,
                 TotalWords(ret.args.size) - 2, TotalWords(ret.args.size) - 1)

\* a frame of a burst read of 2 words was accepted with 1, 0 and 1 in the
\* three words after its payload and the address and 0 in its last two
C33_Witness ==
    /\ ret.op = "burst_read.handle"
    /\ ret.args.size = 2
    /\ ~IsExc(ret.exc)
    /\ SubSeq(ret.args.res, 4, 8) = <<W(1), W(0), W(1), W(4100), W(0)>>
    /\ Expand(ret.value.v) = <<PayloadWord(1, 1), PayloadWord(1, 2)>>

\* the sum of the read sizes stored in the queue q
RECURSIVE SumReadSizes(_)
SumReadSizes(q) == IF q = <<>> THEN 0 ELSE Head(q).read_size + SumReadSizes(Tail(q))

\* the encoded commands of the requests of the queue q, one after the other
RECURSIVE QueuedCommands(_)
QueuedCommands(q) == IF q = <<>> THEN <<>> ELSE reqs[Head(q).h.id].cmd \o QueuedCommands(Tail(q))

\* C34: between public operations cmd_queue_output_size is the sum of the
\* read sizes stored in cmd_queue, cmd_buffer holds the encoded commands of
\* the queued requests in order (so its length is their total length), and
\* cmd_queue is empty exactly when cmd_buffer is empty and
\* cmd_queue_output_size is 0.
C34_BatchBookkeeping ==
    /\ cmd_queue_output_size = SumReadSizes(cmd_queue)
    /\ cmd_buffer = QueuedCommands(cmd_queue)
    /\ ByteLen(cmd_buffer) = ByteLen(QueuedCommands(cmd_queue))
    /\ cmd_queue = <<>> <=> (cmd_buffer = <<>> /\ cmd_queue_output_size = 0)

\* three requests of different sizes are queued: a read, a burst read of 5
\* words and a burst write of 2 words
C34_Witness ==
    /\ Len(cmd_queue) = 3
    /\ \E i, j, k \in 1..3 :
          /\ cmd_queue[i].h.op = "read"
          /\ cmd_queue[j].h.op = "burst_read" /\ cmd_queue[j].read_size = 32
          /\ cmd_queue[k].h.op = "burst_write" /\ reqs[cmd_queue[k].h.id].cmd_len = 32
    /\ cmd_queue_output_size = 64
    /\ ByteLen(cmd_buffer) = 64

\* the call just made encoded a command, queue() flushed the pending batch
\* to make room for it, and that flush raised
RoomFlushRaised ==
    /\ seq' = seq + 1
    /\ IsExc(ret'.exc)
    /\ cmd_queue # <<>>
    /\ trace' # <<>>
    /\ trace'[1].ev = "write" /\ trace'[1].buf = cmd_buffer
    /\ Cardinality(PipeEvents(trace', "write")) = 1

\* C35: when the flush queue() makes to find room raises, the operation being
\* queued raises that exception, its command is neither appended nor written
\* to the pipe, the batch is empty afterwards, and the counter keeps the
\* value the command consumed.
C35_ErrorInRoomFlush ==
    [][RoomFlushRaised =>
          /\ BatchEmpty'
          /\ Written(trace') = cmd_buffer
          /\ seq \in DOMAIN reqs' => ~reqs'[seq].queued /\ reqs'[seq].ncalls = 0
          /\ seq' = seq + 1]_vars

\* slot i (from 0) of a block written to the pipe
Slot(block, i) == SubSeq(block, (i * 8) + 1, (i * 8) + 8)

\* the slot carries the address, direction and, for a write, the value of
\* transaction t
Carries(slot, t) ==
    LET a == to_bytes(t.addr)
    IN  IF t.read_write = WishboneRW.Write
        THEN slot = to_bytes(t.write_val) \o <<a[1], a[2], a[3], (a[4] % 128) + 128>>
        ELSE SubSeq(slot, 5, 8) = <<a[1], a[2], a[3], a[4] % 128>>

\* the slots of all blocks in the order they were written, without the
\* slots that are all zero
RECURSIVE Transmitted(_)
Transmitted(pipe) ==
    IF pipe = <<>> THEN <<>>
    ELSE SelectSeq([i \in 1..(Len(pipe[1]) \div 8) |-> Slot(pipe[1], i - 1)],
                   LAMBDA sl : sl # <<0, 0, 0, 0, 0, 0, 0, 0>>)
         \o Transmitted(Tail(pipe))

\* the queued writes a flush has to issue: for read_ack_stop the queue and
\* the write of the read command
Pending ==
    IF out'.op = "read_ack_stop"
    THEN wbi2c.queued_wb_writes \o <<<<i2c_base + WBI2CReg.SR, 104>>>>
    ELSE wbi2c.queued_wb_writes

\* the call just made is one that issues the queued writes
IssuingCall ==
    \/ out'.op = "flush_writes"
    \/ out'.op = "queue_wb_writes" /\ out'.args = <<FALSE>>
    \/ out'.op = "read_ack_stop"

\* the blocks of the call carry exactly the pending writes, each once and in
\* their order, followed by the register read if the call was a read
IssuedInOrder ==
    LET sent == Transmitted(xem_pipe')
        reads == IF out'.op = "read_ack_stop" THEN 1 ELSE 0
    IN  /\ Len(sent) = Len(Pending) + reads
        /\ \A k \in 1..Len(Pending) :
              Carries(sent[k], WishboneTransaction(Pending[k][1], WishboneRW.Write, Pending[k][2]))
        /\ reads = 1 =>
              Carries(sent[Len(sent)],
                      WishboneTransaction(i2c_base + WBI2CReg.RXR, WishboneRW.Read, NoInt))

\* C36: while write queueing is enabled, start, write and stop send nothing
\* to the bridge and only extend queued_wb_writes; flush_writes,
\* queue_wb_writes(False) and a register read issue every queued write once
\* and in the queued order, before the read if there is one, and leave
\* queued_wb_writes empty.
C36_WriteQueueing ==
    [][wbi2c.queue_wb_writes_enabled =>
          /\ out'.op \in {"start", "write", "stop"} =>
                /\ xem_pipe' = <<>>
                /\ Len(wbi2c'.queued_wb_writes) > Len(wbi2c.queued_wb_writes)
                /\ SubSeq(wbi2c'.queued_wb_writes, 1, Len(wbi2c.queued_wb_writes))
                   = wbi2c.queued_wb_writes
          /\ IssuingCall =>
                /\ IssuedInOrder
                /\ wbi2c'.queued_wb_writes = <<>>]_vars


\* the (block, slot) places of the pipe that carry transaction t
PlacesOf(t) ==
    { bi \in (1..Len(xem_pipe)) \X (0..((2 * block_cnt) - 1)) :
         Carries(Slot(xem_pipe[bi[1]], bi[2]), t) }

\* C37: after bulk_process on a list of any length, every transaction is
\* fulfilled and every transaction's slot was written to the pipe in exactly
\* one block, so no slot of an earlier chunk is sent again in a later one.
C37_DeliversOnce ==
    out.op = "bulk_process" =>
       /\ Len(bulk_txns) = Len(out.args)
       /\ \A k \in 1..Len(bulk_txns) :
             /\ bulk_txns[k].fulfilled
             /\ Cardinality(PlacesOf(out.args[k])) = 1


\* C38: curtxn_valid is true exactly in the window that a successful start()
\* opens and the next stop() or read_ack_stop() closes; outside that window
\* write() and read_ack_stop() raise RuntimeError and change neither the bus
\* nor its slave.
C38_TransactionValidity ==
    /\ [](bus.curtxn_valid = out.window)
    /\ [][(out'.op \in {"write", "read_ack_stop"} /\ ~out.window) =>
             /\ out'.exc = "RuntimeError"
             /\ bus' = bus
             /\ sfp' = sfp]_vars


\* the states of a register read, from the start condition to the stop
ReadCycle ==
    <<"awaiting_reg_addr", "received_reg_addr", "read_register",
      "read_register_awaiting_ack", "awaiting_stop_cond", "idle">>

\* the call just made asked the mock to produce() in state st
ProduceAsked ==
    /\ out'.op = "read_ack_stop"
    /\ bus.curtxn_valid
    /\ bus.curtxn_slaves # <<>>

\* C39: a register read start(bank, WRITE), write(reg), start(bank, READ),
\* read_ack_stop() that finds the mock idle takes it through
\* awaiting_reg_addr, received_reg_addr, read_register,
\* read_register_awaiting_ack, awaiting_stop_cond back to idle, returns
\* regs[bank][reg] and leaves no valid bus transaction, so the next register
\* read finds the mock idle again; and produce() asked for in any state but
\* read_register raises and yields no value.
C39_RegisterReadCycle ==
    [][/\ (out'.op = "__read_sfp_addr" /\ sfp.i2c_state = "idle") =>
             /\ out'.exc = "none"
             /\ out'.log = ReadCycle
             /\ out'.value = Dump(out'.args[1], out'.args[2])
             /\ sfp'.i2c_state = "idle"
             /\ ~bus'.curtxn_valid
             /\ out'.reads = Min2(out.reads + 1, MaxReads)
       /\ (ProduceAsked /\ sfp.i2c_state # "read_register") =>
             /\ out'.exc = "NotImplementedError"
             /\ out'.value = NoInt
             /\ sfp' = sfp]_vars

\* two register reads in a row have succeeded, the second on the other bank
C39_Witness ==
    /\ out.op = "__read_sfp_addr"
    /\ out.exc = "none"
    /\ out.reads = MaxReads
    /\ out.args = <<162, 20>>
    /\ out.value = Dump(162, 20)
    /\ out.log = ReadCycle
    /\ sfp.i2c_state = "idle"
    /\ ~bus.curtxn_valid

====
